---- MODULE Spec2Model ----
(***************************************************************************)
(* State-machine model of the trade-signals web application                *)
(* (heyysahil/trade-signals): the e-mail verification subsystem            *)
(* (CAPTCHA + OTP + registration token, src/routes/auth.py) and the admin  *)
(* notification feed (src/routes/admin/notifications.py).                  *)
(*                                                                         *)
(* Every request handler is one atomic action (request-per-call, one       *)
(* transaction).  Text values are modelled as sequences of characters, so    *)
(* that strip(), isdigit(), len() and str() are computed, not assumed.     *)
(***************************************************************************)
EXTENDS Integers, Sequences, FiniteSets, TLC

VARIABLES
    now,            \* datetime.utcnow() / time.time(), in seconds
    otp,            \* table email_verification_otp: email -> row or NoRow
    captcha,        \* table captcha_challenge: captcha_id -> row or NoRow
    nextCaptcha,    \* number of captcha ids handed out so far
    sendLog,        \* table otp_send_log, in insertion order
    users,          \* table users, in insertion order (id = position)
    issued,         \* registration tokens returned by api_verify_email_otp
    notifications,  \* table admin_notifications (id = position)
    resp,           \* the response of the last request that was handled
    admins,         \* table admins: id -> row
    products,       \* table products: id -> row
    subscriptions,  \* table subscriptions: id -> row or NoRow
    signals,        \* table signals: id -> row or NoRow
    revoked,        \* ids of the staff accounts deactivated or deleted so far
    calls           \* the send requests whose handler runs step by step

vars == <<now, otp, captcha, nextCaptcha, sendLog, users, issued,
          notifications, resp, admins, products, subscriptions, signals, revoked,
          calls>>

verifVars == <<now, otp, captcha, nextCaptcha, sendLog, users, issued>>
adminVars == <<admins, products, subscriptions, signals>>

-----------------------------------------------------------------------------
(* Program constants *)

OTP_RESEND_COOLDOWN_SECONDS == 30
OTP_MAX_SENDS_PER_HOUR == 5
OTP_LENGTH == 6
OTP_EXPIRY_MINUTES == 5
MAX_OTP_ATTEMPTS == 5
CAPTCHA_EXPIRY_MINUTES == 2
REGISTRATION_TOKEN_LIFETIME_SECONDS == 15 * 60
SEND_LOG_RETENTION_HOURS == 24
RATE_WINDOW_HOURS == 1

Minute == 60 * 1
Hour == 60 * Minute
Day == 24 * Hour

\* the days of a trial plan, and the duration_days of the seeded products
TRIAL_DURATION_DAYS == 3
PRODUCT_DURATION_DAYS == 30

-----------------------------------------------------------------------------
(* Bounds of the model *)

MaxCaptchas == 2        \* captcha challenges issued in one behaviour
MaxLogRows == 6         \* rows of otp_send_log kept in one behaviour
MaxUsers == 1           \* registered customers
MaxIssued == 1          \* registration tokens issued in one behaviour
MaxProducts == 1        \* rows of the products table
MaxSubscriptions == 1   \* rows of the subscriptions table
MaxTransactions == 1    \* rows of the transactions table for one subscription
MaxSignals == 1         \* rows of the signals table
MaxNotifications == 2   \* rows of the admin_notifications table
MaxDeskNotifications == 3   \* the same, where subscriptions are approved
MaxStaff == 2           \* rows of the admins table where staff is managed
MaxCalls == 3           \* send requests whose handlers interleave
MaxTries == 2           \* wrong codes one worker compares with one stored hash

\* the last instant (seconds) of any clock of the model
LastInstant == 24 * 60 * 60 + 30

NoRow == [none |-> TRUE]
NoToken == [none |-> TRUE]

-----------------------------------------------------------------------------
(* Text: a string is a sequence of one-character strings, so that strip(),  *)
(* isdigit(), len() and str() are computed on it.                          *)

Digits == <<"0", "1", "2", "3", "4", "5", "6", "7", "8", "9">>
DigitSet == {Digits[i] : i \in 1..Len(Digits)}

RECURSIVE LStrip(_)
LStrip(s) == IF s # <<>> /\ Head(s) = " " THEN LStrip(Tail(s)) ELSE s

RECURSIVE RStrip(_)
RStrip(s) ==
    IF s # <<>> /\ s[Len(s)] = " " THEN RStrip(SubSeq(s, 1, Len(s) - 1)) ELSE s

\* str.strip()
Strip(s) == RStrip(LStrip(s))

\* str.isdigit(): non-empty and every character a digit
IsDigit(s) == s # <<>> /\ \A i \in 1..Len(s) : s[i] \in DigitSet

\* str(n) for a natural number below 100
Str(n) == IF n < 10 THEN <<Digits[n + 1]>>
          ELSE <<Digits[(n \div 10) + 1], Digits[(n % 10) + 1]>>

-----------------------------------------------------------------------------
(* E-mail addresses as they arrive in a request: the address, whether it   *)
(* is typed with capitals, and whether it is surrounded by blanks.         *)

Addresses == {"a@x.com", "b@x.com"}

Email(n, u, p) == [name |-> n, upper |-> u, padded |-> p]

\* what a client may type into an e-mail field
RawEmails ==
    {Email(n, FALSE, FALSE) : n \in Addresses}
        \cup {Email("a@x.com", TRUE, TRUE), Email("not-an-email", FALSE, FALSE),
              Email("", FALSE, TRUE)}

\* str.strip() and str.lower() on an e-mail field
StripEmail(e) == [e EXCEPT !.padded = FALSE]
LowerEmail(e) == [e EXCEPT !.upper = FALSE]

\* the keys of the tables: stripped, lower-case, syntactically valid
Emails == {Email(n, FALSE, FALSE) : n \in Addresses}

\* `not email`: the empty string is falsy
IsEmptyEmail(e) == e.name = "" /\ ~e.padded

\* utils.validators.validate_email: the address is syntactically valid
validate_email(e) == e.name \in Addresses /\ ~e.padded

-----------------------------------------------------------------------------
(* utils/otp_helper.py *)

\* generate_otp(): six decimal digits; the values the model draws
IssuedSample == <<"4", "8", "2", "9", "1", "3">>
OtherSample == <<"0", "0", "7", "3", "1", "9">>
OtpSamples == {IssuedSample, OtherSample}

\* what a client may submit as the code
OtpCandidates ==
    OtpSamples
        \cup { <<" ", "4", "8", "2", "9", "1", "3", " ">>,
               <<"4", "8", "2", "9", "1">>,
               <<"4", "8", "2", "9", "1", "x">>,
               <<>> }

\* hash_otp(): SHA-256 of the text, an injective digest
hash_otp(code) == <<"sha256", code>>

\* verify_otp(plain_otp, otp_hash)
verify_otp(plain, stored) == hash_otp(plain) = stored

\* otp_expires_at()
otp_expires_at(t) == t + OTP_EXPIRY_MINUTES * Minute

-----------------------------------------------------------------------------
(* models/email_verification.py *)

OtpIsExpiredStrict(row, t) == t > row.otp_expires_at
\* EmailVerificationOTP.is_expired()
OtpIsExpired(row, t) == t >= row.otp_expires_at

\* EmailVerificationOTP.attempts_exceeded()
attempts_exceeded(row) == row.otp_attempts >= MAX_OTP_ATTEMPTS

\* CaptchaChallenge.is_expired()
CaptchaIsExpired(row, t) == t >= row.captcha_expires_at

-----------------------------------------------------------------------------
(* utils/captcha_helper.py *)

\* the operands create_math_captcha() draws (secrets.randbelow(15) + 1)
CaptchaOperands == {1, 15}

\* create_math_captcha(): the stored answer is str(a + b)
CaptchaAnswer(a, b) == Str(a + b)

\* captcha_expires_at()
captcha_expires_at(t) == t + CAPTCHA_EXPIRY_MINUTES * Minute

CaptchaIds == 1..MaxCaptchas

\* what a client may submit as the captcha answer
AnswerCandidates ==
    { Str(2), <<" ">> \o Str(2) \o <<" ">>, <<"0">> \o Str(2), Str(16), Str(30), <<>> }

-----------------------------------------------------------------------------
(* utils/verification_token.py *)

SECRET_KEY == "app-secret"

\* hmac.new(key, payload, "sha256").hexdigest() of payload "email|expiry"
Hmac(key, email, expiry) == <<"hmac-sha256", key, email, expiry>>

\* create_registration_verification_token(email) at time t
create_registration_verification_token(email, t) ==
    LET e == LowerEmail(StripEmail(email))
        expiry == t + REGISTRATION_TOKEN_LIFETIME_SECONDS
    IN  [email |-> e, expiry |-> expiry, sig |-> Hmac(SECRET_KEY, e, expiry)]

\* the result None of verify_registration_verification_token
NoEmail == [name |-> "", upper |-> FALSE, padded |-> FALSE]

TokenAcceptedUnsigned(token, t) ==
    IF token = NoToken THEN NoEmail
    ELSE IF token.expiry < t THEN NoEmail
    ELSE LowerEmail(StripEmail(token.email))
\* verify_registration_verification_token(token) at time t: the e-mail, or None
verify_registration_verification_token(token, t) ==
    IF token = NoToken THEN NoEmail
    ELSE IF token.sig # Hmac(SECRET_KEY, token.email, token.expiry) THEN NoEmail
    ELSE IF token.expiry < t THEN NoEmail
    ELSE LowerEmail(StripEmail(token.email))

\* tokens a client can make up without the secret: any payload, a signature
\* computed with another key
ForgedTokens ==
    { [email |-> e, expiry |-> LastInstant + REGISTRATION_TOKEN_LIFETIME_SECONDS,
       sig |-> Hmac("guessed-key", e, LastInstant + REGISTRATION_TOKEN_LIFETIME_SECONDS)]
        : e \in Emails }

\* an issued token whose e-mail was replaced, the signature kept
Retarget(token, e) == [token EXCEPT !.email = e]

-----------------------------------------------------------------------------
(* routes/auth.py: lazy purge of expired verification data *)

\* EmailVerificationOTP rows with otp_expires_at <= now are deleted
PurgeOtp(t) ==
    [e \in Emails |->
        IF otp[e] # NoRow /\ otp[e].otp_expires_at <= t THEN NoRow ELSE otp[e]]

\* CaptchaChallenge rows with captcha_expires_at <= now are deleted
PurgeCaptcha(t) ==
    [c \in CaptchaIds |->
        IF captcha[c] # NoRow /\ captcha[c].captcha_expires_at <= t
        THEN NoRow ELSE captcha[c]]

\* OTPSendLog rows with sent_at <= now - 24 h are deleted
PurgeLog(t) ==
    SelectSeq(sendLog,
              LAMBDA r : ~(r.sent_at <= t - SEND_LOG_RETENTION_HOURS * Hour))

\* _cleanup_expired_verification_data(): the three purges in one transaction;
\* when the transaction fails (ok = FALSE) it is rolled back and nothing is purged
Cleaned(ok, t) ==
    IF ok THEN [otp |-> PurgeOtp(t), captcha |-> PurgeCaptcha(t), log |-> PurgeLog(t)]
    ELSE [otp |-> otp, captcha |-> captcha, log |-> sendLog]

-----------------------------------------------------------------------------
(* resp records the last request handled and its response: the endpoint,   *)
(* the e-mail and the code of the request as the handler normalised them,  *)
(* the return statement taken (branch) and what it returns; for a request  *)
(* that reached the captcha check, the captcha proof it presented; for a   *)
(* request of the admin panel, the admin of the session and the id in the  *)
(* URL.  Status and Message give what the client sees of a branch.         *)

Response(op, email, branch) ==
    [op |-> op, email |-> email, code |-> <<>>, branch |-> branch,
     token |-> NoToken, retry_after |-> 0,
     proof |-> [captcha_token |-> "", captcha_id |-> 0, captcha_answer |-> <<>>],
     admin |-> 0, notification_id |-> 0, redirect_url |-> "", id |-> 0,
     session_cleared |-> (branch = "Unauthenticated"), feed |-> <<>>, previous |-> "",
     amount |-> 0]

CAPTCHA_INVALID_MSG == "Verification failed. Please try again."
OTP_SEND_FAIL_MSG == "Unable to send verification code. Please try again later."
OTP_VERIFY_FAIL_MSG == "Invalid or expired code. Please request a new one."
OTP_BLOCKED_MSG == "Too many attempts. Please request a new code."
OTP_RATE_LIMIT_MSG == "Too many requests. Please try again later."
OTP_RESEND_COOLDOWN_MSG == "Please wait before requesting another code."
OTP_SUCCESS_MSG == "Verification code sent. Check your email."
OTP_VERIFY_SUCCESS_MSG == "Email verified successfully."
INVALID_EMAIL_MSG == "Please provide a valid email address."
MAIL_NOT_CONFIGURED_MSG == "Email service is not configured. Please contact support."
GENERIC_ERROR == "Something went wrong. Please try again later."

\* the HTTP status of each return statement
Status(r) ==
    CASE r.branch \in {"Ok", "Registered"} -> 200
      [] r.branch \in {"InvalidEmail", "InvalidInput", "CaptchaInvalid", "NotFound",
                       "Expired", "AttemptsExhausted", "Mismatch"} -> 400
      [] r.branch = "Forbidden" -> 403
      [] r.branch \in {"RateLimited", "Cooldown"} -> 429
      [] r.branch \in {"MailNotConfigured", "DeliveryFailed", "CommitFailed",
                       "ServerError"} -> 500
      [] OTHER -> 0

\* the message of each return statement of the two OTP endpoints
Message(r) ==
    CASE r.branch = "InvalidEmail" -> INVALID_EMAIL_MSG
      [] r.branch = "CaptchaInvalid" -> CAPTCHA_INVALID_MSG
      [] r.branch = "RateLimited" -> OTP_RATE_LIMIT_MSG
      [] r.branch = "Cooldown" -> OTP_RESEND_COOLDOWN_MSG
      [] r.branch = "MailNotConfigured" -> MAIL_NOT_CONFIGURED_MSG
      [] r.branch \in {"DeliveryFailed", "CommitFailed"} -> OTP_SEND_FAIL_MSG
      [] r.branch = "ServerError" -> GENERIC_ERROR
      [] r.branch \in {"InvalidInput", "NotFound", "Expired", "Mismatch"} -> OTP_VERIFY_FAIL_MSG
      [] r.branch = "AttemptsExhausted" -> OTP_BLOCKED_MSG
      [] r.branch = "Ok" /\ r.op = "send_otp" -> OTP_SUCCESS_MSG
      [] r.branch = "Ok" /\ r.op = "verify_otp" -> OTP_VERIFY_SUCCESS_MSG
      [] OTHER -> ""

-----------------------------------------------------------------------------
(* routes/auth.py: CAPTCHA *)

\* the captcha proof of a request: a third-party token, or the id and the
\* answer of a custom challenge (id 0 and the empty answer: not given)
Proof(tok, id, answer) ==
    [captcha_token |-> tok, captcha_id |-> id, captcha_answer |-> answer]

RecaptchaProofs ==
    {Proof("recaptcha-pass", 0, <<>>), Proof("recaptcha-fail", 0, <<>>)}

\* the id and an answer of a custom challenge, alone or next to a third-party
\* token that does not pass
CustomProofs ==
    {Proof("", id, ans) : id \in 0..MaxCaptchas, ans \in AnswerCandidates}
        \cup {Proof("recaptcha-fail", id, Str(2)) : id \in 0..MaxCaptchas}

\* _validate_recaptcha(token): the verdict of the third-party service
validate_recaptcha(token) == token # "" /\ token = "recaptcha-pass"

CaptchaReusable(table, id, answer, t) ==
    /\ id \in CaptchaIds /\ answer # <<>>
    /\ table[id] # NoRow
    /\ ~CaptchaIsExpired(table[id], t)
    /\ Strip(table[id].captcha_answer) = Strip(answer)
\* _validate_captcha_custom(captcha_id, captcha_answer): id 0 is the empty id
validate_captcha_custom(table, id, answer, t) ==
    /\ id \in CaptchaIds /\ answer # <<>>
    /\ table[id] # NoRow
    /\ table[id].used = 0
    /\ ~CaptchaIsExpired(table[id], t)
    /\ Strip(table[id].captcha_answer) = Strip(answer)

\* GET /auth/captcha
api_captcha(env) ==
    \E gc \in env.gc, a \in CaptchaOperands, b \in CaptchaOperands :
        LET c == Cleaned(gc, now)
            id == nextCaptcha + 1
        IN  /\ nextCaptcha < MaxCaptchas
            /\ nextCaptcha' = id
            /\ captcha' = [c.captcha EXCEPT ![id] =
                              [captcha_answer |-> CaptchaAnswer(a, b),
                               captcha_expires_at |-> captcha_expires_at(now),
                               used |-> 0]]
            /\ otp' = c.otp
            /\ sendLog' = c.log
            /\ resp' = Response("captcha", NoEmail, "Ok")
            /\ UNCHANGED <<now, users, issued, notifications, adminVars, revoked, calls>>

-----------------------------------------------------------------------------
(* routes/auth.py: POST /auth/send-verification-otp *)

\* OTPSendLog rows of this e-mail with sent_at >= now - 1 h
RecentSends(log, email, t) ==
    Cardinality({i \in 1..Len(log) :
                    log[i].email = email /\ log[i].sent_at >= t - RATE_WINDOW_HOURS * Hour})

RateLimitedAbove(log, email, t) == RecentSends(log, email, t) > OTP_MAX_SENDS_PER_HOUR
\* recent_sends >= OTP_MAX_SENDS_PER_HOUR
RateLimited(log, email, t) == RecentSends(log, email, t) >= OTP_MAX_SENDS_PER_HOUR

NoCooldown(row, t) == FALSE
\* existing and existing.otp_sent_at and delta < OTP_RESEND_COOLDOWN_SECONDS
InCooldown(row, t) ==
    row # NoRow /\ (t - row.otp_sent_at) < OTP_RESEND_COOLDOWN_SECONDS

\* max(1, int(OTP_RESEND_COOLDOWN_SECONDS - delta))
RetryAfter(row, t) ==
    LET left == OTP_RESEND_COOLDOWN_SECONDS - (t - row.otp_sent_at)
    IN  IF left > 1 THEN left ELSE 1

\* the row written for a new code (an existing row is overwritten field by field)
NewOtpRow(code, t) ==
    [otp_hash |-> hash_otp(code), otp_expires_at |-> otp_expires_at(t),
     otp_attempts |-> 0, email_verified |-> 0, otp_sent_at |-> t]

\* what the tables hold after send_verification_otp_email raised: the commit
\* came before the dispatch, so the rollback in the handler undoes nothing
AfterDispatchFailure(before, written) == written

\* the response of a request that reached the captcha check
SendResponse(email, proof, branch) ==
    [Response("send_otp", email, branch) EXCEPT !.proof = proof]

api_send_verification_otp(env) ==
    \E gc \in env.gc, raw \in env.emails :
        LET c == Cleaned(gc, now)
            email == LowerEmail(StripEmail(raw))
        IN  /\ UNCHANGED <<now, nextCaptcha, users, issued, notifications, adminVars, revoked, calls>>
            /\ IF IsEmptyEmail(email) \/ ~validate_email(email)
               THEN /\ otp' = c.otp /\ captcha' = c.captcha /\ sendLog' = c.log
                    /\ resp' = Response("send_otp", NoEmail, "InvalidEmail")
               ELSE \E given \in env.proofs :
                    LET tok == given.captcha_token
                        cid == given.captcha_id
                        answer == Strip(given.captcha_answer)
                        proof == Proof(tok, cid, answer)
                        recaptcha == tok # "" /\ validate_recaptcha(tok)
                        custom == /\ ~recaptcha /\ cid # 0 /\ answer # <<>>
                                  /\ validate_captcha_custom(c.captcha, cid, answer, now)
                        cap2 == IF custom THEN [c.captcha EXCEPT ![cid].used = 1]
                                ELSE c.captcha
                    IN  /\ captcha' = cap2
                        /\ IF ~(recaptcha \/ custom)
                           THEN /\ otp' = c.otp /\ sendLog' = c.log
                                /\ resp' = SendResponse(email, proof, "CaptchaInvalid")
                           ELSE IF RateLimited(c.log, email, now)
                           THEN /\ otp' = c.otp /\ sendLog' = c.log
                                /\ resp' = SendResponse(email, proof, "RateLimited")
                           ELSE IF InCooldown(c.otp[email], now)
                           THEN /\ otp' = c.otp /\ sendLog' = c.log
                                /\ resp' = [SendResponse(email, proof, "Cooldown")
                                               EXCEPT !.retry_after = RetryAfter(c.otp[email], now)]
                           ELSE \E mailConfigured \in env.mailConfigured :
                                IF ~mailConfigured
                                THEN /\ otp' = c.otp /\ sendLog' = c.log
                                     /\ resp' = SendResponse(email, proof, "MailNotConfigured")
                                ELSE \E code \in env.codes, delivered \in env.delivered :
                                     LET before == [otp |-> c.otp, log |-> c.log]
                                         written ==
                                            [otp |-> [c.otp EXCEPT ![email] = NewOtpRow(code, now)],
                                             log |-> Append(c.log, [email |-> email, sent_at |-> now])]
                                         kept == IF delivered THEN written
                                                 ELSE AfterDispatchFailure(before, written)
                                     IN  /\ Len(c.log) < MaxLogRows
                                         /\ otp' = kept.otp
                                         /\ sendLog' = kept.log
                                         /\ resp' = SendResponse(email, proof,
                                                       IF delivered THEN "Ok" ELSE "DeliveryFailed")

-----------------------------------------------------------------------------
(* routes/auth.py: POST /auth/send-verification-otp, one request handler   *)
(* per worker.  Each handler reads the table, then flushes and commits;    *)
(* the handlers of other requests run between the two steps.               *)

Procs == 1..MaxCalls

\* a worker that has not been given a request
IdleCall ==
    [pc |-> "idle", email |-> NoEmail, code |-> <<>>, seen |-> FALSE, at |-> 0, order |-> 0,
     proof |-> Proof("", 0, <<>>), captcha_ok |-> FALSE, attempts |-> 0, compared |-> 0]

\* a worker whose request was answered before the write
AnsweredCall == [IdleCall EXCEPT !.pc = "done"]

\* the position of the next commit among the commits of the send handlers
NextOrder ==
    LET orders == {calls[p].order : p \in Procs}
    IN  1 + (CHOOSE m \in orders : \A n \in orders : n <= m)

\* the flush of the handler fails: the row it loaded is gone (UPDATE matches
\* no row), or the row it found missing is there (primary key violation)
CommitConflict(table, call) ==
    IF call.seen THEN table[call.email] = NoRow ELSE table[call.email] # NoRow

CommittedOtpFirstWins(table, call) ==
    IF table[call.email] # NoRow THEN table
    ELSE [table EXCEPT ![call.email] = NewOtpRow(call.code, call.at)]
\* the table after the UPDATE or INSERT of the handler is committed
CommittedOtp(table, call) ==
    [table EXCEPT ![call.email] = NewOtpRow(call.code, call.at)]

\* the request of worker p, with captcha_ok as computed, is answered with r
\* before the write
Answered(p, proof, captcha_ok, r) ==
    /\ resp' = r
    /\ calls' = [calls EXCEPT ![p] = [AnsweredCall EXCEPT !.proof = proof,
                                                        !.captcha_ok = captcha_ok]]

\* the handler from the rate limit to row = EmailVerificationOTP.query.get(email),
\* for the request of worker p that passed the captcha check with proof
ReadOtpRow(env, p, email, proof, table, log) ==
    LET answered(r) == Answered(p, proof, TRUE, r) IN
    IF RateLimited(log, email, now)
    THEN answered(SendResponse(email, proof, "RateLimited"))
    ELSE IF InCooldown(table[email], now)
    THEN answered([SendResponse(email, proof, "Cooldown")
                       EXCEPT !.retry_after = RetryAfter(table[email], now)])
    ELSE \E mailConfigured \in env.mailConfigured :
         IF ~mailConfigured
         THEN answered(SendResponse(email, proof, "MailNotConfigured"))
         ELSE \E code \in env.codes :
              /\ calls' = [calls EXCEPT ![p] =
                     [IdleCall EXCEPT !.pc = "read", !.email = email, !.code = code,
                                      !.seen = (table[email] # NoRow), !.at = now,
                                      !.proof = proof, !.captcha_ok = TRUE]]
              /\ resp' = SendResponse(email, proof, "InFlight")

\* the handler up to its first commit after the purge: for a request that
\* passes the third-party captcha, up to EmailVerificationOTP.query.get(email);
\* for a request with the answer of a custom challenge, up to the checks on
\* the challenge row loaded by CaptchaChallenge.query.get(captcha_id)
send_begin(env) ==
    \E p \in Procs, gc \in env.gc, raw \in env.emails, given \in env.proofs :
        LET c == Cleaned(gc, now)
            email == LowerEmail(StripEmail(raw))
            tok == given.captcha_token
            cid == given.captcha_id
            answer == Strip(given.captcha_answer)
            proof == Proof(tok, cid, answer)
            recaptcha == tok # "" /\ validate_recaptcha(tok)
            custom == /\ ~recaptcha /\ cid # 0 /\ answer # <<>>
                      /\ validate_captcha_custom(c.captcha, cid, answer, now)
        IN  /\ calls[p].pc = "idle"
            \* the workers are interchangeable: the first idle one takes the request
            /\ \A q \in Procs : q < p => calls[q].pc # "idle"
            /\ UNCHANGED <<now, nextCaptcha, users, issued, notifications, adminVars, revoked>>
            /\ otp' = c.otp /\ captcha' = c.captcha /\ sendLog' = c.log
            /\ IF IsEmptyEmail(email) \/ ~validate_email(email)
               THEN Answered(p, Proof("", 0, <<>>), FALSE, Response("send_otp", NoEmail, "InvalidEmail"))
               ELSE IF recaptcha
               THEN ReadOtpRow(env, p, email, proof, c.otp, c.log)
               ELSE IF custom
               THEN /\ calls' = [calls EXCEPT ![p] =
                           [IdleCall EXCEPT !.pc = "captcha", !.email = email,
                                            !.proof = proof]]
                    /\ resp' = SendResponse(email, proof, "InFlight")
               ELSE Answered(p, proof, FALSE, SendResponse(email, proof, "CaptchaInvalid"))

\* the handler from cap.used = 1 and db.session.commit() in
\* _validate_captcha_custom to EmailVerificationOTP.query.get(email); the
\* UPDATE of a challenge row that was purged meanwhile matches no row and the
\* request ends in the outer except
send_captcha(env) ==
    \E p \in Procs :
        LET call == calls[p]
            cid == call.proof.captcha_id
        IN  /\ call.pc = "captcha"
            /\ UNCHANGED <<now, otp, sendLog, nextCaptcha, users, issued, notifications,
                           adminVars, revoked>>
            /\ IF captcha[cid] = NoRow
               THEN /\ UNCHANGED captcha
                    /\ Answered(p, call.proof, FALSE,
                                SendResponse(call.email, call.proof, "ServerError"))
               ELSE /\ captcha' = [captcha EXCEPT ![cid].used = 1]
                    /\ ReadOtpRow(env, p, call.email, call.proof, otp, sendLog)

\* the rest of the handler: db.session.commit(), the dispatch of the mail,
\* the response
send_commit(env) ==
    \E p \in Procs, delivered \in env.delivered :
        LET call == calls[p]
        IN  /\ call.pc = "read"
            /\ UNCHANGED <<now, captcha, nextCaptcha, users, issued, notifications,
                           adminVars, revoked>>
            /\ IF CommitConflict(otp, call)
               THEN /\ UNCHANGED <<otp, sendLog>>
                    /\ calls' = [calls EXCEPT ![p].pc = "done"]
                    /\ resp' = Response("send_otp", call.email, "CommitFailed")
               ELSE /\ Len(sendLog) < MaxLogRows
                    /\ otp' = CommittedOtp(otp, call)
                    /\ sendLog' = Append(sendLog, [email |-> call.email, sent_at |-> call.at])
                    /\ calls' = [calls EXCEPT ![p].pc = "done", ![p].order = NextOrder]
                    /\ resp' = Response("send_otp", call.email,
                                        IF delivered THEN "Ok" ELSE "DeliveryFailed")

-----------------------------------------------------------------------------
(* routes/auth.py: POST /auth/verify-email-otp *)

\* not otp or not otp.isdigit() or len(otp) != 6
MalformedOtp(code) == code = <<>> \/ ~IsDigit(code) \/ Len(code) # OTP_LENGTH

\* user.email_verified = True for the user with this e-mail, if there is one
MarkVerified(table, email) ==
    [i \in 1..Len(table) |->
        IF table[i].email = email THEN [table[i] EXCEPT !.email_verified = TRUE]
        ELSE table[i]]

\* the checks on the loaded row, in the order of the handler
VerifyRow(row, code, t) ==
    IF OtpIsExpired(row, t) THEN "Expired"
    ELSE IF attempts_exceeded(row) THEN "AttemptsExhausted"
    ELSE IF ~verify_otp(code, row.otp_hash) THEN "Mismatch"
    ELSE "Ok"

NotCounted(row) == row
\* row.otp_attempts += 1
Attempted(row) == [row EXCEPT !.otp_attempts = @ + 1]

api_verify_email_otp(env) ==
    \E gc \in env.gc, raw \in env.emails, cand \in env.candidates :
        LET c == Cleaned(gc, now)
            email == LowerEmail(StripEmail(raw))
            code == Strip(cand)
            row == c.otp[email]
        IN  /\ captcha' = c.captcha
            /\ sendLog' = c.log
            /\ UNCHANGED <<now, nextCaptcha, notifications, adminVars, revoked, calls>>
            /\ IF IsEmptyEmail(email) \/ ~validate_email(email)
               THEN /\ otp' = c.otp
                    /\ resp' = Response("verify_otp", NoEmail, "InvalidEmail")
                    /\ UNCHANGED <<users, issued>>
               ELSE IF MalformedOtp(code)
               THEN /\ otp' = c.otp
                    /\ resp' = [Response("verify_otp", email, "InvalidInput") EXCEPT !.code = code]
                    /\ UNCHANGED <<users, issued>>
               ELSE IF row = NoRow
               THEN /\ otp' = c.otp
                    /\ resp' = [Response("verify_otp", email, "NotFound") EXCEPT !.code = code]
                    /\ UNCHANGED <<users, issued>>
               ELSE IF VerifyRow(row, code, now) \in {"Expired", "AttemptsExhausted"}
               THEN /\ otp' = c.otp
                    /\ resp' = [Response("verify_otp", email, VerifyRow(row, code, now))
                                   EXCEPT !.code = code]
                    /\ UNCHANGED <<users, issued>>
               ELSE IF VerifyRow(row, code, now) = "Mismatch"
               THEN /\ otp' = [c.otp EXCEPT ![email] = Attempted(@)]
                    /\ resp' = [Response("verify_otp", email, "Mismatch") EXCEPT !.code = code]
                    /\ UNCHANGED <<users, issued>>
               ELSE LET token == create_registration_verification_token(email, now)
                    IN  /\ token \in issued \/ Cardinality(issued) < MaxIssued
                        /\ users' = MarkVerified(users, email)
                        /\ otp' = [c.otp EXCEPT ![email] = NoRow]
                        /\ issued' = issued \cup {token}
                        /\ resp' = [Response("verify_otp", email, "Ok")
                                       EXCEPT !.code = code, !.token = token]

-----------------------------------------------------------------------------
(* routes/auth.py: POST /register *)

\* the tokens a client can put in the form: none, one it was given, one it
\* made up, one it was given with the e-mail replaced
PresentableTokens(forged) ==
    {NoToken} \cup issued \cup forged
        \cup {Retarget(tk, e) : tk \in issued, e \in Emails}

\* email_verified as register() computes it: True when the form has no
\* token, else whether the token verifies and names the e-mail as typed
RegisterEmailVerified(raw, token, t) ==
    IF token # NoToken
    THEN /\ verify_registration_verification_token(token, t) # NoEmail
         /\ verify_registration_verification_token(token, t) = StripEmail(raw)
    ELSE TRUE

\* utils.notifications.create_notification; the message is the text of the
\* caller before the names of the row related_id are filled in
create_notification(type, title, message, related_id) ==
    Append(notifications,
           [type |-> type, title |-> title, message |-> message,
            related_id |-> related_id, is_read |-> FALSE])

register(env) ==
    \E open \in env.open, raw \in env.regEmails, mobile \in env.mobiles,
       fieldsValid \in env.fieldsValid, token \in PresentableTokens(env.forged) :
        LET email_normalized == LowerEmail(StripEmail(raw))
            email_verified == RegisterEmailVerified(raw, token, now)
            existing_mobile == \E i \in 1..Len(users) : users[i].mobile = mobile
            existing_email == \E i \in 1..Len(users) : users[i].email = email_normalized
            errors == \/ ~fieldsValid
                      \/ ~validate_email(email_normalized)
                      \/ existing_mobile
                      \/ existing_email
        IN  /\ UNCHANGED <<now, otp, captcha, nextCaptcha, sendLog, issued, adminVars, revoked, calls>>
            /\ IF ~open
               THEN /\ resp' = Response("register", NoEmail, "RegistrationClosed")
                    /\ UNCHANGED <<users, notifications>>
               ELSE IF errors
               THEN /\ resp' = Response("register", NoEmail, "ValidationFailed")
                    /\ UNCHANGED <<users, notifications>>
               ELSE /\ Len(users) < MaxUsers
                    /\ Len(notifications) < env.notificationCap
                    /\ users' = Append(users, [email |-> email_normalized, mobile |-> mobile,
                                               email_verified |-> email_verified])
                    /\ notifications' =
                         create_notification("user", "New User Registered",
                                             "New user registered: {full_name} ({email})",
                                             Len(users) + 1)
                    /\ resp' = [Response("register", email_normalized, "Registered")
                                   EXCEPT !.token = token]

-----------------------------------------------------------------------------
(* Admin panel: the tables.  Rows are kept in insertion order, the id of a  *)
(* row is its position.                                                    *)

\* product_category = None
NoCategory == ""

\* product categories (seed_all_admins.PRODUCT_CATEGORIES), two of the eight
Categories == {"Forex Trading", "Crypto Trading"}

\* the default e-mail address and username of the seeded superadmin
SEED_ADMIN_EMAIL == "superadmin@tradesignal.tech"
SEED_ADMIN_USERNAME == "superadmin"

Admin(username, email, role, category, is_active) ==
    [username |-> username, email |-> email, role |-> role,
     product_category |-> category, is_active |-> is_active]

\* seed_all_admins._get_admins(): the superadmin and the admin of a category
SeededAdmins ==
    << Admin(SEED_ADMIN_USERNAME, SEED_ADMIN_EMAIL, "superadmin", NoCategory, TRUE),
       Admin("admin_forex", "admin_forex@tradesignal.tech", "admin", "Forex Trading", TRUE) >>

AdminIds == 1..Len(SeededAdmins)

\* the row of a deleted staff account is kept as DeletedAdmin so that ids
\* stay positions and are never given to another account
DeletedAdmin ==
    [username |-> "", email |-> "", role |-> "deleted",
     product_category |-> NoCategory, is_active |-> FALSE]

\* Admin.query.get(admin_id) finds a row
AdminExists(a) == a \in 1..Len(admins) /\ admins[a] # DeletedAdmin

admin_found(a) == AdminExists(a)
\* admin_required: the session names an admin that exists and is active
admin_required(a) == AdminExists(a) /\ admins[a].is_active

\* admin.role != 'superadmin' and admin.product_category
CategoryScoped(admin) == admin.role # "superadmin" /\ admin.product_category # NoCategory

-----------------------------------------------------------------------------
(* routes/admin/notifications.py *)

\* Product.query.filter_by(name=admin.product_category, is_active=True)
ProductIdsOf(category) ==
    {p \in 1..Len(products) : products[p].name = category /\ products[p].is_active}

\* the filter of the query for a category-scoped admin with product ids pids
MatchesCategory(n, pids) ==
    \/ /\ n.type = "subscription"
       /\ \E i \in 1..Len(subscriptions) :
              i = n.related_id /\ subscriptions[i].product_id \in pids
    \/ /\ n.type = "signal"
       /\ \E i \in 1..Len(signals) : i = n.related_id /\ signals[i].product_id \in pids
    \/ n.type = "user"
    \/ n.type = "system"

\* the ids among 1..k that the filter keeps, newest first
RECURSIVE NewestFirst(_, _, _)
NewestFirst(k, scoped, pids) ==
    IF k = 0 THEN <<>>
    ELSE (IF ~scoped \/ MatchesCategory(notifications[k], pids) THEN <<k>> ELSE <<>>)
             \o NewestFirst(k - 1, scoped, pids)

get_notifications_filtered(admin, limit) ==
    LET pids == ProductIdsOf(admin.product_category)
        all == NewestFirst(Len(notifications), TRUE, pids)
    IN  IF pids = {} THEN <<>>
        ELSE IF limit # 0 /\ limit < Len(all) THEN SubSeq(all, 1, limit)
        ELSE all
\* get_notifications_for_admin(admin, limit): the ids, newest first; limit 0 is
\* limit=None
get_notifications_for_admin(admin, limit) ==
    LET scoped == CategoryScoped(admin)
        pids == IF scoped THEN ProductIdsOf(admin.product_category) ELSE {}
        all == NewestFirst(Len(notifications), scoped, pids)
    IN  IF scoped /\ pids = {} THEN <<>>
        ELSE IF limit # 0 /\ limit < Len(all) THEN SubSeq(all, 1, limit)
        ELSE all

\* [n.id for n in get_notifications_for_admin(admin, limit=None)]
VisibleIds(admin) ==
    LET ns == get_notifications_for_admin(admin, 0) IN {ns[i] : i \in 1..Len(ns)}

AccessNeverDenied(admin, id) == FALSE
\* notification.id not in notification_ids
AccessDenied(admin, id) == id \notin VisibleIds(admin)

\* the response of a request of the notification endpoints
PanelResponse(op, a, id, branch) ==
    [Response(op, NoEmail, branch) EXCEPT !.admin = a, !.notification_id = id]

\* the response of an action on the row id of a table of the panel
ActionResponse(op, a, id, branch) ==
    [Response(op, NoEmail, branch) EXCEPT !.admin = a, !.id = id]

\* the redirect target of a notification
RedirectUrl(n) ==
    IF n.type = "subscription" /\ n.related_id # 0 THEN "admin_subscriptions.view_subscription"
    ELSE IF n.type = "signal" /\ n.related_id # 0 THEN "admin_signals.signals"
    ELSE IF n.type = "user" /\ n.related_id # 0 THEN "admin_customers.customers"
    ELSE "admin_dashboard.dashboard"

Toggled(notification) == [notification EXCEPT !.is_read = ~@]
\* notification.is_read = True
MarkedRead(notification) == [notification EXCEPT !.is_read = TRUE]

\* POST /admin/notifications/<id>/read
mark_as_read(env) ==
    \E a \in env.sessions, id \in env.notificationIds :
        /\ UNCHANGED <<calls, verifVars, adminVars, revoked>>
        /\ IF ~admin_required(a)
           THEN /\ resp' = PanelResponse("mark_as_read", a, id, "Unauthenticated")
                /\ UNCHANGED notifications
           ELSE IF id \notin 1..Len(notifications)
           THEN /\ resp' = PanelResponse("mark_as_read", a, id, "NotFound")
                /\ UNCHANGED notifications
           ELSE IF AccessDenied(admins[a], id)
           THEN /\ resp' = PanelResponse("mark_as_read", a, id, "Forbidden")
                /\ UNCHANGED notifications
           ELSE /\ notifications' = [notifications EXCEPT ![id] = MarkedRead(@)]
                /\ resp' = PanelResponse("mark_as_read", a, id, "Ok")

\* POST /admin/notifications/mark-all-read
mark_all_as_read(env) ==
    \E a \in env.sessions :
        /\ UNCHANGED <<calls, verifVars, adminVars, revoked>>
        /\ IF ~admin_required(a)
           THEN /\ resp' = PanelResponse("mark_all_as_read", a, 0, "Unauthenticated")
                /\ UNCHANGED notifications
           ELSE /\ notifications' =
                     [i \in 1..Len(notifications) |->
                         IF i \in VisibleIds(admins[a])
                         THEN MarkedRead(notifications[i])
                         ELSE notifications[i]]
                /\ resp' = PanelResponse("mark_all_as_read", a, 0, "Ok")

\* GET /admin/notifications/<id>/redirect
redirect_notification(env) ==
    \E a \in env.sessions, id \in env.notificationIds :
        /\ UNCHANGED <<calls, verifVars, adminVars, revoked>>
        /\ IF ~admin_required(a)
           THEN /\ resp' = PanelResponse("redirect_notification", a, id, "Unauthenticated")
                /\ UNCHANGED notifications
           ELSE IF id \notin 1..Len(notifications)
           THEN /\ resp' = PanelResponse("redirect_notification", a, id, "NotFound")
                /\ UNCHANGED notifications
           ELSE IF AccessDenied(admins[a], id)
           THEN /\ resp' = PanelResponse("redirect_notification", a, id, "Forbidden")
                /\ UNCHANGED notifications
           ELSE /\ notifications' = [notifications EXCEPT ![id] = MarkedRead(@)]
                /\ resp' = [PanelResponse("redirect_notification", a, id, "Ok")
                               EXCEPT !.redirect_url = RedirectUrl(notifications[id])]

-----------------------------------------------------------------------------
(* The producers of notifications and the tables the feed is scoped by *)

\* POST /admin/products/create (the other fields of the form are valid)
create_product(env) ==
    \E a \in env.sessions, name \in env.productNames, is_active \in BOOLEAN :
        /\ UNCHANGED <<calls, verifVars, revoked, notifications, admins, subscriptions, signals>>
        /\ IF ~admin_required(a)
           THEN /\ resp' = Response("create_product", NoEmail, "Unauthenticated")
                /\ UNCHANGED products
           ELSE IF name = ""
           THEN /\ resp' = Response("create_product", NoEmail, "ValidationFailed")
                /\ UNCHANGED products
           ELSE /\ Len(products) < MaxProducts
                /\ products' = Append(products, [name |-> name, is_active |-> is_active])
                /\ resp' = Response("create_product", NoEmail, "Ok")

\* POST /admin/products/<id>/edit (the other fields of the form are valid)
edit_product(env) ==
    \E a \in env.sessions, id \in 1..MaxProducts, name \in env.productNames,
       is_active \in BOOLEAN :
        /\ UNCHANGED <<calls, verifVars, revoked, notifications, admins, subscriptions, signals>>
        /\ IF ~admin_required(a)
           THEN /\ resp' = Response("edit_product", NoEmail, "Unauthenticated")
                /\ UNCHANGED products
           ELSE IF id \notin 1..Len(products)
           THEN /\ resp' = Response("edit_product", NoEmail, "NotFound")
                /\ UNCHANGED products
           ELSE IF name = ""
           THEN /\ resp' = Response("edit_product", NoEmail, "ValidationFailed")
                /\ UNCHANGED products
           ELSE /\ products' = [products EXCEPT ![id] = [name |-> name, is_active |-> is_active]]
                /\ resp' = Response("edit_product", NoEmail, "Ok")

\* duration_days of subscription_confirm: a trial plan, or the duration of
\* the product
PlanDays(plan_type) ==
    IF plan_type = "trial" THEN TRIAL_DURATION_DAYS ELSE PRODUCT_DURATION_DAYS

\* POST /user/subscriptions/confirm by a logged-in customer: a pending
\* subscription and its notification
subscription_confirm(env) ==
    \E u \in 1..Len(users), product_id \in 0..MaxProducts, agree_terms \in env.agree,
       plan_type \in env.planTypes :
        /\ UNCHANGED <<calls, verifVars, revoked, admins, products, signals>>
        /\ IF product_id = 0 \/ ~agree_terms
           THEN /\ resp' = Response("subscription_confirm", users[u].email, "ValidationFailed")
                /\ UNCHANGED <<subscriptions, notifications>>
           ELSE IF product_id \notin 1..Len(products)
           THEN /\ resp' = Response("subscription_confirm", users[u].email, "NotFound")
                /\ UNCHANGED <<subscriptions, notifications>>
           ELSE IF ~products[product_id].is_active
           THEN /\ resp' = Response("subscription_confirm", users[u].email, "Unavailable")
                /\ UNCHANGED <<subscriptions, notifications>>
           ELSE /\ Len(subscriptions) < MaxSubscriptions
                /\ Len(notifications) < env.notificationCap
                /\ subscriptions' = Append(subscriptions,
                                        [user_id |-> u, product_id |-> product_id,
                                         status |-> "pending", approved_by |-> 0,
                                         start_date |-> now,
                                         end_date |-> now + PlanDays(plan_type) * Day,
                                         transactions |-> <<>>])
                /\ notifications' = create_notification("subscription",
                                        "New Subscription Request",
                                        "User {full_name} requested subscription for {name} (Status: PENDING)",
                                        Len(subscriptions) + 1)
                /\ resp' = Response("subscription_confirm", users[u].email, "Ok")

\* POST /admin/signals/create (the other fields of the form are valid);
\* product_id 0 is no product selected
\* Prices are counted in thousandths of the currency unit, so that a form
\* value can be finer than the two decimals the price columns keep.
Cent == 10

\* a DateTime column that holds NULL
NoTime == -1

\* round(pnl, 2), for a value that is not half-way between two cents
Round2(v) ==
    IF v >= 0 THEN ((v + Cent \div 2) \div Cent) * Cent
    ELSE -(((-v + Cent \div 2) \div Cent) * Cent)

\* what a Numeric(10, 2) column keeps of the value written to it
Numeric2(v) == Round2(v)

create_signal(env) ==
    \E a \in env.sessions, product_id \in 0..MaxProducts,
       signal_type \in env.signalTypes, entry_price \in env.entryPrices :
        LET admin == admins[a]
            errors ==
                \/ /\ CategoryScoped(admin)
                   /\ \/ product_id = 0
                      \/ product_id \notin 1..Len(products)
                      \/ products[product_id].name # admin.product_category
                \/ product_id # 0 /\ product_id \notin 1..Len(products)
        IN  /\ UNCHANGED <<calls, verifVars, revoked, admins, products, subscriptions>>
            /\ IF ~admin_required(a)
               THEN /\ resp' = PanelResponse("create_signal", a, 0, "Unauthenticated")
                    /\ UNCHANGED <<signals, notifications>>
               ELSE IF errors
               THEN /\ resp' = PanelResponse("create_signal", a, 0, "ValidationFailed")
                    /\ UNCHANGED <<signals, notifications>>
               ELSE /\ Len(signals) < MaxSignals
                    /\ Len(notifications) < env.notificationCap
                    /\ signals' = Append(signals,
                                     [product_id |-> product_id, status |-> "ACTIVE",
                                      approval_status |-> "PENDING", approved_by |-> 0,
                                      signal_type |-> signal_type,
                                      entry_price |-> Numeric2(entry_price),
                                      exit_price |-> 0, exit_time |-> NoTime,
                                      profit_loss |-> 0])
                    /\ notifications' = create_notification("signal", "New Signal Created",
                                            "New {signal_type} signal for {symbol} in {product_name}",
                                            Len(signals) + 1)
                    /\ resp' = PanelResponse("create_signal", a, 0, "Ok")

\* the row of a deleted subscription is kept as DeletedSubscription so that
\* ids stay positions
DeletedSubscription ==
    [user_id |-> 0, product_id |-> 0, status |-> "deleted", approved_by |-> 0,
     start_date |-> 0, end_date |-> 0, transactions |-> <<>>]

\* Subscription.query.get_or_404(subscription_id) finds a row
SubscriptionExists(id) ==
    id \in 1..Len(subscriptions) /\ subscriptions[id] # DeletedSubscription

\* POST /admin/subscriptions/<id>/approve: the subscription is approved and an
\* audit notification of type system is created
\* Transaction.query.filter_by(subscription_id, status='pending').first() is
\* set to 'completed'; the transactions of a subscription are kept in its row,
\* in insertion order
CompleteFirstPending(transactions) ==
    LET pending == {i \in 1..Len(transactions) : transactions[i] = "pending"}
    IN  IF pending = {} THEN transactions
        ELSE [transactions EXCEPT
                 ![CHOOSE i \in pending : \A j \in pending : i <= j] = "completed"]

approve_subscription(env) ==
    \E a \in env.sessions, id \in 1..MaxSubscriptions :
        /\ UNCHANGED <<calls, verifVars, revoked, admins, products, signals>>
        /\ IF ~admin_required(a)
           THEN /\ resp' = ActionResponse("approve_subscription", a, id, "Unauthenticated")
                /\ UNCHANGED <<subscriptions, notifications>>
           ELSE IF ~SubscriptionExists(id)
           THEN /\ resp' = ActionResponse("approve_subscription", a, id, "NotFound")
                /\ UNCHANGED <<subscriptions, notifications>>
           ELSE /\ Len(notifications) < env.notificationCap
                /\ subscriptions' = [subscriptions EXCEPT
                                        ![id].status = "approved",
                                        ![id].approved_by = a,
                                        ![id].transactions = CompleteFirstPending(@)]
                /\ notifications' = create_notification("system", "Approve Successful",
                                        "Subscription #{entity_id} was approveed successfully", id)
                /\ resp' = ActionResponse("approve_subscription", a, id, "Ok")

\* POST /admin/subscriptions/<id>/reject
reject_subscription(env) ==
    \E a \in env.sessions, id \in 1..MaxSubscriptions :
        /\ UNCHANGED <<calls, verifVars, revoked, admins, products, signals>>
        /\ IF ~admin_required(a)
           THEN /\ resp' = ActionResponse("reject_subscription", a, id, "Unauthenticated")
                /\ UNCHANGED <<subscriptions, notifications>>
           ELSE IF ~SubscriptionExists(id)
           THEN /\ resp' = ActionResponse("reject_subscription", a, id, "NotFound")
                /\ UNCHANGED <<subscriptions, notifications>>
           ELSE /\ Len(notifications) < env.notificationCap
                /\ subscriptions' = [subscriptions EXCEPT ![id].status = "rejected",
                                                          ![id].approved_by = 0]
                /\ notifications' = create_notification("system", "Reject Successful",
                                        "Subscription #{entity_id} was rejected successfully", id)
                /\ resp' = ActionResponse("reject_subscription", a, id, "Ok")

\* POST /admin/subscriptions/<id>/edit; a date below 0 is an empty or
\* malformed date
edit_subscription(env) ==
    \E a \in env.sessions, id \in 1..MaxSubscriptions, status \in env.statuses,
       start_date \in env.startDates, end_date \in env.endDates :
        /\ UNCHANGED <<calls, verifVars, revoked, notifications, admins, products, signals>>
        /\ IF ~admin_required(a)
           THEN /\ resp' = ActionResponse("edit_subscription", a, id, "Unauthenticated")
                /\ UNCHANGED subscriptions
           ELSE IF ~SubscriptionExists(id)
           THEN /\ resp' = ActionResponse("edit_subscription", a, id, "NotFound")
                /\ UNCHANGED subscriptions
           ELSE IF \/ status \notin {"active", "pending", "expired", "cancelled"}
                   \/ start_date < 0
                   \/ end_date < 0
           THEN /\ resp' = ActionResponse("edit_subscription", a, id, "ValidationFailed")
                /\ UNCHANGED subscriptions
           ELSE /\ subscriptions' = [subscriptions EXCEPT ![id].status = status,
                                                          ![id].start_date = start_date,
                                                          ![id].end_date = end_date]
                /\ resp' = ActionResponse("edit_subscription", a, id, "Ok")

\* POST /admin/subscriptions/<id>/delete
delete_subscription(env) ==
    \E a \in env.sessions, id \in 1..MaxSubscriptions :
        /\ UNCHANGED <<calls, verifVars, revoked, notifications, admins, products, signals>>
        /\ IF ~admin_required(a)
           THEN /\ resp' = ActionResponse("delete_subscription", a, id, "Unauthenticated")
                /\ UNCHANGED subscriptions
           ELSE IF ~SubscriptionExists(id)
           THEN /\ resp' = ActionResponse("delete_subscription", a, id, "NotFound")
                /\ UNCHANGED subscriptions
           ELSE /\ subscriptions' = [subscriptions EXCEPT ![id] = DeletedSubscription]
                /\ resp' = ActionResponse("delete_subscription", a, id, "Ok")

\* POST /admin/subscriptions/start: a subscription created by an admin is
\* approved at once; user_id and product_id 0 are nothing selected
start_subscription(env) ==
    \E a \in env.sessions, user_id \in 0..Len(users), product_id \in 0..Len(products),
       start_date \in env.startDates, duration_days \in env.durations :
        /\ UNCHANGED <<calls, verifVars, revoked, notifications, admins, products, signals>>
        /\ IF ~admin_required(a)
           THEN /\ resp' = ActionResponse("start_subscription", a, 0, "Unauthenticated")
                /\ UNCHANGED subscriptions
           ELSE IF user_id = 0 \/ product_id = 0 \/ start_date < 0 \/ duration_days <= 0
           THEN /\ resp' = ActionResponse("start_subscription", a, 0, "ValidationFailed")
                /\ UNCHANGED subscriptions
           ELSE /\ Len(subscriptions) < MaxSubscriptions
                /\ subscriptions' = Append(subscriptions,
                                        [user_id |-> user_id, product_id |-> product_id,
                                         status |-> "approved", approved_by |-> a,
                                         start_date |-> start_date,
                                         end_date |-> start_date + duration_days * Day,
                                         transactions |-> <<>>])
                /\ resp' = ActionResponse("start_subscription", a, Len(subscriptions) + 1, "Ok")

-----------------------------------------------------------------------------
(* routes/user/payment.py *)

\* POST /user/payment of customer u; id is session['pending_subscription_id']
\* (0: no such key), an id subscription_confirm once put in a session
payment(env) ==
    \E u \in 1..Len(users), id \in 0..Len(subscriptions), transaction_ref \in env.refs :
        /\ UNCHANGED <<calls, verifVars, revoked, admins, products, signals>>
        /\ IF id = 0
           THEN /\ resp' = [Response("payment", users[u].email, "NoPending") EXCEPT !.id = id]
                /\ UNCHANGED <<subscriptions, notifications>>
           ELSE IF ~SubscriptionExists(id) \/ subscriptions[id].user_id # u
           THEN /\ resp' = [Response("payment", users[u].email, "Invalid") EXCEPT !.id = id]
                /\ UNCHANGED <<subscriptions, notifications>>
           ELSE IF transaction_ref = ""
           THEN /\ resp' = [Response("payment", users[u].email, "ValidationFailed")
                               EXCEPT !.id = id]
                /\ UNCHANGED <<subscriptions, notifications>>
           ELSE /\ Len(subscriptions[id].transactions) < MaxTransactions
                /\ Len(notifications) < env.notificationCap
                /\ subscriptions' = [subscriptions EXCEPT
                                        ![id].status = "pending",
                                        ![id].approved_by = 0,
                                        ![id].transactions = Append(@, "pending")]
                /\ notifications' = create_notification("subscription",
                                        "Payment Submitted",
                                        "User {full_name} submitted payment of {amount} for {name}", id)
                /\ resp' = [Response("payment", users[u].email, "Ok") EXCEPT !.id = id]

-----------------------------------------------------------------------------
(* routes/admin/signals.py: the actions on one signal.  The row of a       *)
(* deleted signal is kept as DeletedSignal so that ids stay positions.     *)

DeletedSignal ==
    [product_id |-> 0, status |-> "DELETED", approval_status |-> "DELETED",
     approved_by |-> 0, signal_type |-> "", entry_price |-> 0, exit_price |-> 0,
     exit_time |-> NoTime, profit_loss |-> 0]

\* Signal.query.get_or_404(signal_id) finds a row
SignalExists(id) == id \in 1..Len(signals) /\ signals[id] # DeletedSignal

\* the category check the four actions start with: the admin is scoped, the
\* signal has a product, and the name of the product is not the category
SignalAccessDenied(admin, signal) ==
    /\ CategoryScoped(admin)
    /\ signal.product_id \in 1..Len(products)
    /\ products[signal.product_id].name # admin.product_category

\* pnl of close_signal
ProfitLossOfBuy(signal, exit_price) == exit_price - signal.entry_price
\* pnl: float(exit_price) - float(signal.entry_price) for BUY, the reverse
\* otherwise
ProfitLoss(signal, exit_price) ==
    IF signal.signal_type = "BUY" THEN exit_price - signal.entry_price
    ELSE signal.entry_price - exit_price

ClosableAgain(signal) == FALSE
\* signal.status != 'ACTIVE'
NotActive(signal) == signal.status # "ACTIVE"

\* POST /admin/signals/<id>/close; the response keeps the exit price of the form
close_signal(env) ==
    \E a \in env.sessions, id \in 1..MaxSignals, exit_price \in env.exitPrices :
        /\ UNCHANGED <<calls, verifVars, revoked, notifications, admins, products, subscriptions>>
        /\ IF ~admin_required(a)
           THEN /\ resp' = ActionResponse("close_signal", a, id, "Unauthenticated")
                /\ UNCHANGED signals
           ELSE IF ~SignalExists(id)
           THEN /\ resp' = ActionResponse("close_signal", a, id, "NotFound")
                /\ UNCHANGED signals
           ELSE IF SignalAccessDenied(admins[a], signals[id])
           THEN /\ resp' = ActionResponse("close_signal", a, id, "Forbidden")
                /\ UNCHANGED signals
           ELSE IF NotActive(signals[id])
           THEN /\ resp' = ActionResponse("close_signal", a, id, "NotActive")
                /\ UNCHANGED signals
           ELSE IF exit_price <= 0
           THEN /\ resp' = ActionResponse("close_signal", a, id, "ValidationFailed")
                /\ UNCHANGED signals
           ELSE LET pnl == ProfitLoss(signals[id], exit_price)
                IN  /\ signals' = [signals EXCEPT
                           ![id].exit_price = Numeric2(exit_price),
                           ![id].exit_time = now,
                           ![id].profit_loss = Numeric2(Round2(pnl)),
                           ![id].status = IF pnl > 0 THEN "PROFIT"
                                          ELSE IF pnl < 0 THEN "LOSS" ELSE "ACTIVE"]
                    /\ resp' = [ActionResponse("close_signal", a, id, "Ok")
                                   EXCEPT !.amount = exit_price]

ApprovedIfPending(signal, a) ==
    IF signal.approval_status = "PENDING"
    THEN [signal EXCEPT !.approval_status = "APPROVED", !.approved_by = a]
    ELSE signal
\* signal.approval_status = 'APPROVED'; signal.approved_by = admin.id
Approved(signal, a) ==
    [signal EXCEPT !.approval_status = "APPROVED", !.approved_by = a]

\* signal.approval_status = 'REJECTED'; signal.approved_by = None
Rejected(signal) ==
    [signal EXCEPT !.approval_status = "REJECTED", !.approved_by = 0]

\* POST /admin/signals/<id>/approve; the response keeps the approval status
\* the handler found
approve_signal(env) ==
    \E a \in env.sessions, id \in 1..MaxSignals :
        /\ UNCHANGED <<calls, verifVars, revoked, notifications, admins, products, subscriptions>>
        /\ IF ~admin_required(a)
           THEN /\ resp' = ActionResponse("approve_signal", a, id, "Unauthenticated")
                /\ UNCHANGED signals
           ELSE IF ~SignalExists(id)
           THEN /\ resp' = ActionResponse("approve_signal", a, id, "NotFound")
                /\ UNCHANGED signals
           ELSE IF SignalAccessDenied(admins[a], signals[id])
           THEN /\ resp' = ActionResponse("approve_signal", a, id, "Forbidden")
                /\ UNCHANGED signals
           ELSE /\ signals' = [signals EXCEPT ![id] = Approved(@, a)]
                /\ resp' = [ActionResponse("approve_signal", a, id, "Ok")
                               EXCEPT !.previous = signals[id].approval_status]

\* POST /admin/signals/<id>/reject
reject_signal(env) ==
    \E a \in env.sessions, id \in 1..MaxSignals :
        /\ UNCHANGED <<calls, verifVars, revoked, notifications, admins, products, subscriptions>>
        /\ IF ~admin_required(a)
           THEN /\ resp' = ActionResponse("reject_signal", a, id, "Unauthenticated")
                /\ UNCHANGED signals
           ELSE IF ~SignalExists(id)
           THEN /\ resp' = ActionResponse("reject_signal", a, id, "NotFound")
                /\ UNCHANGED signals
           ELSE IF SignalAccessDenied(admins[a], signals[id])
           THEN /\ resp' = ActionResponse("reject_signal", a, id, "Forbidden")
                /\ UNCHANGED signals
           ELSE /\ signals' = [signals EXCEPT ![id] = Rejected(@)]
                /\ resp' = [ActionResponse("reject_signal", a, id, "Ok")
                               EXCEPT !.previous = signals[id].approval_status]

\* POST /admin/signals/<id>/delete
delete_signal(env) ==
    \E a \in env.sessions, id \in 1..MaxSignals :
        /\ UNCHANGED <<calls, verifVars, revoked, notifications, admins, products, subscriptions>>
        /\ IF ~admin_required(a)
           THEN /\ resp' = ActionResponse("delete_signal", a, id, "Unauthenticated")
                /\ UNCHANGED signals
           ELSE IF ~SignalExists(id)
           THEN /\ resp' = ActionResponse("delete_signal", a, id, "NotFound")
                /\ UNCHANGED signals
           ELSE IF SignalAccessDenied(admins[a], signals[id])
           THEN /\ resp' = ActionResponse("delete_signal", a, id, "Forbidden")
                /\ UNCHANGED signals
           ELSE /\ signals' = [signals EXCEPT ![id] = DeletedSignal]
                /\ resp' = ActionResponse("delete_signal", a, id, "Ok")

-----------------------------------------------------------------------------
(* routes/admin/staff.py and the seeding of the superadmin at boot *)

\* Admin.query.filter_by(username=username).first() finds a row other than
\* the row except
UsernameTaken(username, except) ==
    \E i \in 1..Len(admins) :
        i # except /\ AdminExists(i) /\ admins[i].username = username

\* Admin.query.filter_by(email=email).first() finds a row other than the row
\* except
EmailTaken(email, except) ==
    \E i \in 1..Len(admins) : i # except /\ AdminExists(i) /\ admins[i].email = email

\* the errors of the staff form for the row except (0 for a new row)
StaffFormErrors(username, email, product_category, except) ==
    \/ username = ""
    \/ UsernameTaken(username, except)
    \/ EmailTaken(email, except)
    \/ product_category # NoCategory /\ product_category \notin Categories

\* app.seed_admin, run at every boot: the account of the seed address is
\* created as superadmin, or made superadmin and active; a commit that would
\* give two accounts the same username fails and is rolled back
seed_admin(env) ==
    LET found == {i \in 1..Len(admins) :
                    AdminExists(i) /\ admins[i].email = SEED_ADMIN_EMAIL}
    IN  /\ UNCHANGED <<calls, verifVars, revoked, notifications, products, subscriptions, signals>>
        /\ IF found = {}
           THEN IF UsernameTaken(SEED_ADMIN_USERNAME, 0)
                THEN /\ resp' = Response("seed_admin", NoEmail, "RolledBack")
                     /\ UNCHANGED admins
                ELSE /\ Len(admins) < MaxStaff
                     /\ admins' = Append(admins,
                                     Admin(SEED_ADMIN_USERNAME, SEED_ADMIN_EMAIL,
                                           "superadmin", NoCategory, TRUE))
                     /\ resp' = Response("seed_admin", NoEmail, "Ok")
           ELSE LET i == CHOOSE i \in found : TRUE
                IN  IF UsernameTaken(SEED_ADMIN_USERNAME, i)
                    THEN /\ resp' = Response("seed_admin", NoEmail, "RolledBack")
                         /\ UNCHANGED admins
                    ELSE /\ admins' = [admins EXCEPT ![i].username = SEED_ADMIN_USERNAME,
                                                      ![i].role = "superadmin",
                                                      ![i].is_active = TRUE]
                         /\ resp' = Response("seed_admin", NoEmail, "Ok")

\* POST /admin/staff/create (the password of the form is valid)
create_staff(env) ==
    \E a \in env.sessions, username \in env.usernames, email \in env.staffEmails,
       product_category \in env.formCategories, is_active \in BOOLEAN :
        /\ UNCHANGED <<calls, verifVars, revoked, notifications, products, subscriptions, signals>>
        /\ IF ~admin_required(a)
           THEN /\ resp' = ActionResponse("create_staff", a, 0, "Unauthenticated")
                /\ UNCHANGED admins
           ELSE IF admins[a].role # "superadmin"
           THEN /\ resp' = ActionResponse("create_staff", a, 0, "Forbidden")
                /\ UNCHANGED admins
           ELSE IF StaffFormErrors(username, email, product_category, 0)
           THEN /\ resp' = ActionResponse("create_staff", a, 0, "ValidationFailed")
                /\ UNCHANGED admins
           ELSE /\ Len(admins) < MaxStaff
                /\ admins' = Append(admins,
                                Admin(username, email,
                                      IF product_category = NoCategory
                                      THEN "superadmin" ELSE "admin",
                                      product_category, is_active))
                /\ resp' = ActionResponse("create_staff", a, Len(admins) + 1, "Ok")

\* POST /admin/staff/<id>/edit (no new password)
edit_staff(env) ==
    \E a \in env.sessions, staff_id \in 1..MaxStaff, username \in env.usernames,
       email \in env.staffEmails, product_category \in env.formCategories,
       is_active \in BOOLEAN :
        /\ UNCHANGED <<calls, verifVars, notifications, products, subscriptions, signals>>
        /\ IF ~admin_required(a)
           THEN /\ resp' = ActionResponse("edit_staff", a, staff_id, "Unauthenticated")
                /\ UNCHANGED <<admins, revoked>>
           ELSE IF admins[a].role # "superadmin"
           THEN /\ resp' = ActionResponse("edit_staff", a, staff_id, "Forbidden")
                /\ UNCHANGED <<admins, revoked>>
           ELSE IF ~AdminExists(staff_id)
           THEN /\ resp' = ActionResponse("edit_staff", a, staff_id, "NotFound")
                /\ UNCHANGED <<admins, revoked>>
           ELSE IF admins[staff_id].role = "superadmin" /\ staff_id # a
           THEN /\ resp' = ActionResponse("edit_staff", a, staff_id, "OtherSuperadmin")
                /\ UNCHANGED <<admins, revoked>>
           ELSE IF StaffFormErrors(username, email, product_category, staff_id)
           THEN /\ resp' = ActionResponse("edit_staff", a, staff_id, "ValidationFailed")
                /\ UNCHANGED <<admins, revoked>>
           ELSE /\ admins' = [admins EXCEPT ![staff_id] =
                                IF admins[staff_id].role = "superadmin"
                                THEN Admin(username, email, "superadmin", NoCategory, is_active)
                                ELSE Admin(username, email, "admin", product_category,
                                           is_active)]
                /\ revoked' = IF admins[staff_id].is_active /\ ~is_active
                              THEN revoked \cup {staff_id} ELSE revoked
                /\ resp' = ActionResponse("edit_staff", a, staff_id, "Ok")

\* POST /admin/staff/<id>/delete
delete_staff(env) ==
    \E a \in env.sessions, staff_id \in 1..MaxStaff :
        /\ UNCHANGED <<calls, verifVars, notifications, products, subscriptions, signals>>
        /\ IF ~admin_required(a)
           THEN /\ resp' = ActionResponse("delete_staff", a, staff_id, "Unauthenticated")
                /\ UNCHANGED <<admins, revoked>>
           ELSE IF ~AdminExists(staff_id)
           THEN /\ resp' = ActionResponse("delete_staff", a, staff_id, "NotFound")
                /\ UNCHANGED <<admins, revoked>>
           ELSE IF staff_id = a
           THEN /\ resp' = ActionResponse("delete_staff", a, staff_id, "OwnAccount")
                /\ UNCHANGED <<admins, revoked>>
           ELSE /\ admins' = [admins EXCEPT ![staff_id] = DeletedAdmin]
                /\ revoked' = revoked \cup {staff_id}
                /\ resp' = ActionResponse("delete_staff", a, staff_id, "Ok")

-----------------------------------------------------------------------------
(* routes/user/signals.py: the signal feed of a customer *)

\* the product ids of the subscriptions of customer u with status approved
ApprovedProductIds(u) ==
    {subscriptions[i].product_id : i \in {j \in 1..Len(subscriptions) :
        /\ subscriptions[j].user_id = u
        /\ subscriptions[j].status = "approved"}}

\* those of the product ids that name an active product
ActiveProductIds(product_ids) ==
    {p \in product_ids : p \in 1..Len(products) /\ products[p].is_active}

\* the approved signals among 1..k of the products pids, newest first
RECURSIVE ApprovedSignals(_, _)
ApprovedSignals(k, pids) ==
    IF k = 0 THEN <<>>
    ELSE (IF signals[k].product_id \in pids /\ signals[k].approval_status = "APPROVED"
          THEN <<k>> ELSE <<>>) \o ApprovedSignals(k - 1, pids)

\* signals_list of the feed of customer u; filter_product_id 0 is no filter
SignalFeed(u, filter_product_id) ==
    LET product_ids == ApprovedProductIds(u)
        active_product_ids == ActiveProductIds(product_ids)
    IN  IF product_ids = {} \/ active_product_ids = {} THEN <<>>
        ELSE IF filter_product_id # 0 /\ filter_product_id \in active_product_ids
        THEN ApprovedSignals(Len(signals), {filter_product_id})
        ELSE ApprovedSignals(Len(signals), active_product_ids)

\* GET /user/signals by a logged-in customer
user_signals(env) ==
    \E u \in 1..Len(users), filter_product_id \in 0..MaxProducts :
        /\ UNCHANGED <<calls, verifVars, notifications, adminVars, revoked>>
        /\ resp' = [Response("signals", users[u].email, "Ok")
                       EXCEPT !.id = u, !.feed = SignalFeed(u, filter_product_id)]

-----------------------------------------------------------------------------
(* Time *)

\* the clock moves to the next instant at which requests arrive
Tick(env) ==
    /\ \E i \in 1..(Len(env.clock) - 1) : now = env.clock[i] /\ now' = env.clock[i + 1]
    /\ UNCHANGED <<otp, captcha, nextCaptcha, sendLog, users, issued,
                   notifications, resp, adminVars, revoked, calls>>

-----------------------------------------------------------------------------
(* routes/auth.py: POST /auth/verify-email-otp, one request handler per    *)
(* worker.  A handler that finds the code wrong has loaded the row and     *)
(* commits otp_attempts later; the handlers of other requests run between. *)

\* wrong codes worker p has compared with the hash stored at sent_at for email
ComparedBy(p, email, sent_at) ==
    IF calls[p].email = email /\ calls[p].at = sent_at THEN calls[p].compared ELSE 0

\* the handler up to verify_otp(otp, row.otp_hash); a request with the right
\* code is served to its end
verify_begin(env) ==
    \E p \in Procs, gc \in env.gc, raw \in env.emails, cand \in env.candidates :
        LET c == Cleaned(gc, now)
            email == LowerEmail(StripEmail(raw))
            code == Strip(cand)
            row == c.otp[email]
            answered(r) == /\ resp' = r
                           /\ calls' = [calls EXCEPT ![p].pc = "done"]
                           /\ otp' = c.otp
                           /\ UNCHANGED <<users, issued>>
        IN  /\ calls[p].pc \in {"idle", "done"}
            /\ captcha' = c.captcha
            /\ sendLog' = c.log
            /\ UNCHANGED <<now, nextCaptcha, notifications, adminVars, revoked>>
            /\ IF IsEmptyEmail(email) \/ ~validate_email(email)
               THEN answered(Response("verify_otp", NoEmail, "InvalidEmail"))
               ELSE IF MalformedOtp(code)
               THEN answered([Response("verify_otp", email, "InvalidInput") EXCEPT !.code = code])
               ELSE IF row = NoRow
               THEN answered([Response("verify_otp", email, "NotFound") EXCEPT !.code = code])
               ELSE IF VerifyRow(row, code, now) \in {"Expired", "AttemptsExhausted"}
               THEN answered([Response("verify_otp", email, VerifyRow(row, code, now))
                                 EXCEPT !.code = code])
               ELSE IF VerifyRow(row, code, now) = "Mismatch"
               THEN /\ ComparedBy(p, email, row.otp_sent_at) < MaxTries
                    /\ calls' = [calls EXCEPT ![p] =
                           [IdleCall EXCEPT !.pc = "verify", !.email = email, !.code = code,
                                            !.at = row.otp_sent_at,
                                            !.attempts = row.otp_attempts,
                                            !.compared = ComparedBy(p, email, row.otp_sent_at) + 1]]
                    /\ otp' = c.otp
                    /\ resp' = [Response("verify_otp", email, "InFlight") EXCEPT !.code = code]
                    /\ UNCHANGED <<users, issued>>
               ELSE LET token == create_registration_verification_token(email, now)
                    IN  /\ token \in issued \/ Cardinality(issued) < MaxIssued
                        /\ users' = MarkVerified(users, email)
                        /\ otp' = [c.otp EXCEPT ![email] = NoRow]
                        /\ issued' = issued \cup {token}
                        /\ calls' = [calls EXCEPT ![p].pc = "done"]
                        /\ resp' = [Response("verify_otp", email, "Ok")
                                       EXCEPT !.code = code, !.token = token]

\* row.otp_attempts += 1 and db.session.commit(): the UPDATE writes the value
\* computed from the loaded row; when the row is gone it matches no row and the
\* exception is swallowed
verify_commit(env) ==
    \E p \in Procs :
        LET call == calls[p]
        IN  /\ call.pc = "verify"
            /\ UNCHANGED <<now, captcha, nextCaptcha, sendLog, users, issued, notifications,
                           adminVars, revoked>>
            /\ otp' = IF otp[call.email] = NoRow THEN otp
                      ELSE [otp EXCEPT ![call.email].otp_attempts = call.attempts + 1]
            /\ calls' = [calls EXCEPT ![p].pc = "done"]
            /\ resp' = [Response("verify_otp", call.email, "Mismatch") EXCEPT !.code = call.code]

-----------------------------------------------------------------------------
(* The requests that arrive: the values each specification draws the       *)
(* inputs of the handlers from, and the instants at which requests arrive. *)
(* The instants hit the boundaries of the code: the 30 s cooldown, the     *)
(* 2 min captcha expiry, the 5 min OTP expiry, the 15 min token lifetime,  *)
(* the 1 h rate window, the 24 h purge of the send log.                    *)

\* the clients of one address, behind the third-party captcha
EnvOtp ==
    [clock |-> <<0, 30, 300, 3600, 24 * 3600>>,
     emails |-> {e \in RawEmails : e.name # "b@x.com"},
     regEmails |-> {},
     mobiles |-> {},
     proofs |-> RecaptchaProofs,
     codes |-> {IssuedSample},
     candidates |-> OtpCandidates,
     gc |-> BOOLEAN,
     mailConfigured |-> BOOLEAN,
     delivered |-> BOOLEAN,
     open |-> BOOLEAN,
     fieldsValid |-> BOOLEAN,
     forged |-> ForgedTokens,
     sessions |-> {},
     notificationIds |-> {},
     productNames |-> {},
     agree |-> {},
     signalTypes |-> {},
     entryPrices |-> {},
     exitPrices |-> {},
     planTypes |-> {},
     notificationCap |-> MaxNotifications,
     statuses |-> {},
     startDates |-> {},
     endDates |-> {},
     durations |-> {},
     usernames |-> {},
     staffEmails |-> {},
     formCategories |-> {},
     refs |-> {}]

\* registration next to the verification of one address: the form may name
\* the verified address as issued, typed with capitals and blanks, or another
\* address; the instants are the last at which a token issued at 0 is valid
\* and the first at which it is not
EnvReg ==
    [EnvOtp EXCEPT
        !.clock = <<0, REGISTRATION_TOKEN_LIFETIME_SECONDS,
                    REGISTRATION_TOKEN_LIFETIME_SECONDS + 1>>,
        !.emails = {Email("a@x.com", FALSE, FALSE)},
        !.regEmails = {Email("a@x.com", FALSE, FALSE), Email("a@x.com", TRUE, TRUE),
                       Email("b@x.com", FALSE, FALSE)},
        !.mobiles = {"9000000001"},
        !.proofs = {Proof("recaptcha-pass", 0, <<>>)},
        !.candidates = OtpSamples,
        !.gc = {TRUE},
        !.mailConfigured = {TRUE}]

\* the clients of one address, answering custom challenges; the instants are
\* before and at the expiry of a challenge issued at 0
EnvCaptcha ==
    [EnvOtp EXCEPT
        !.clock = <<0, 60, CAPTCHA_EXPIRY_MINUTES * Minute>>,
        !.emails = {Email("a@x.com", FALSE, FALSE), Email("not-an-email", FALSE, FALSE)},
        !.proofs = CustomProofs,
        !.mailConfigured = {FALSE}]

\* the admin panel: the seeded admins, customers registering and subscribing
EnvPanel ==
    [EnvOtp EXCEPT
        !.regEmails = {Email("a@x.com", FALSE, FALSE)},
        !.mobiles = {"9000000001"},
        !.open = {TRUE},
        !.fieldsValid = {TRUE},
        !.forged = {},
        !.sessions = AdminIds,
        !.notificationIds = 1..MaxNotifications,
        !.productNames = Categories,
        !.agree = {TRUE},
        !.signalTypes = {"BUY"},
        !.entryPrices = {100 * Cent},
        !.planTypes = {"trial"}]

\* the signal desk: both seeded admins create, close, approve, reject and
\* delete signals of the products of two categories
EnvSignal ==
    [EnvPanel EXCEPT
        !.signalTypes = {"BUY", "SELL"},
        !.exitPrices = {0, 90 * Cent, 100 * Cent}]

\* the subscription desk: a customer subscribes, both seeded admins approve,
\* reject, edit, delete and start subscriptions
EnvDesk ==
    [EnvPanel EXCEPT
        !.notificationCap = MaxDeskNotifications,
        !.statuses = {"active", "renewed"},
        !.startDates = {0},
        !.endDates = {-1, Day},
        !.durations = {0, TRIAL_DURATION_DAYS}]

\* staff management: any account may hold a session; the forms name two
\* usernames, two addresses, no category, a category, and an unknown category
EnvStaff ==
    [EnvPanel EXCEPT
        !.sessions = 1..MaxStaff,
        !.usernames = {SEED_ADMIN_USERNAME, "desk"},
        !.staffEmails = {SEED_ADMIN_EMAIL, "desk@tradesignal.tech"},
        !.formCategories = {NoCategory, "Forex Trading", "Commodities"}]

\* the feed of a customer: a trial of three days is started at instant 0,
\* requests arrive on its last day and the second after
EnvFeed ==
    [EnvPanel EXCEPT
        !.clock = <<0, TRIAL_DURATION_DAYS * Day, TRIAL_DURATION_DAYS * Day + 1>>,
        !.startDates = {0},
        !.durations = {TRIAL_DURATION_DAYS}]

\* send requests for one address whose handlers interleave, a second request
\* after the cooldown, and a client that submits both codes
EnvRace ==
    [EnvOtp EXCEPT
        !.clock = <<0, OTP_RESEND_COOLDOWN_SECONDS>>,
        !.emails = {Email("a@x.com", FALSE, FALSE)},
        !.proofs = {Proof("recaptcha-pass", 0, <<>>)},
        !.codes = OtpSamples,
        !.candidates = OtpSamples,
        !.gc = {TRUE},
        !.mailConfigured = {TRUE}]

\* overlapping send requests for one address that already has sends in the hour
EnvRate ==
    [EnvRace EXCEPT
        !.clock = <<0, OTP_RESEND_COOLDOWN_SECONDS, 2 * OTP_RESEND_COOLDOWN_SECONDS,
                    3 * OTP_RESEND_COOLDOWN_SECONDS>>,
        !.codes = {IssuedSample},
        !.delivered = {TRUE}]

\* overlapping send requests that answer a custom challenge
EnvOnce ==
    [EnvCaptcha EXCEPT
        !.clock = <<0, CAPTCHA_EXPIRY_MINUTES * Minute>>,
        !.emails = {Email("a@x.com", FALSE, FALSE)},
        !.proofs = {Proof("", id, ans) : id \in CaptchaIds, ans \in {Str(2), Str(16)}},
        !.gc = {TRUE}]

\* overlapping verify requests for one address
EnvTry ==
    [EnvRace EXCEPT
        !.codes = {IssuedSample},
        !.candidates = OtpSamples,
        !.delivered = {TRUE}]

\* a customer who subscribes and pays, and the admins who approve
EnvPay ==
    [EnvPanel EXCEPT
        !.notificationCap = MaxDeskNotifications + 1,
        !.refs = {"", "UTR-1"}]

\* the superadmin who decides on signals and closes them, at prices with and
\* without a fraction of a cent
EnvLife ==
    [EnvPanel EXCEPT
        !.sessions = {1},
        !.signalTypes = {"BUY", "SELL"},
        !.entryPrices = {100 * Cent, 100 * Cent + 6},
        !.exitPrices = {0, 90 * Cent, 100 * Cent, 100 * Cent + 4, 110 * Cent}]

Init ==
    /\ now = 0
    /\ otp = [e \in Emails |-> NoRow]
    /\ captcha = [c \in CaptchaIds |-> NoRow]
    /\ nextCaptcha = 0
    /\ sendLog = <<>>
    /\ users = <<>>
    /\ issued = {}
    /\ notifications = <<>>
    /\ resp = Response("none", NoEmail, "None")
    /\ admins = SeededAdmins
    /\ products = <<>>
    /\ subscriptions = <<>>
    /\ signals = <<>>
    /\ revoked = {}
    /\ calls = [p \in Procs |-> IdleCall]

\* the database before the first boot: no staff account yet
StaffInit ==
    /\ now = 0
    /\ otp = [e \in Emails |-> NoRow]
    /\ captcha = [c \in CaptchaIds |-> NoRow]
    /\ nextCaptcha = 0
    /\ sendLog = <<>>
    /\ users = <<>>
    /\ issued = {}
    /\ notifications = <<>>
    /\ resp = Response("none", NoEmail, "None")
    /\ admins = <<>>
    /\ products = <<>>
    /\ subscriptions = <<>>
    /\ signals = <<>>
    /\ revoked = {}
    /\ calls = [p \in Procs |-> IdleCall]

\* the OTP endpoints
Next ==
    \/ Tick(EnvOtp)
    \/ api_send_verification_otp(EnvOtp)
    \/ api_verify_email_otp(EnvOtp)

Spec == Init /\ [][Next]_vars

\* the OTP endpoints and registration
RegisterNext ==
    \/ Tick(EnvReg)
    \/ api_send_verification_otp(EnvReg)
    \/ api_verify_email_otp(EnvReg)
    \/ register(EnvReg)

RegisterSpec == Init /\ [][RegisterNext]_vars

\* the custom captcha in front of the send endpoint
CaptchaNext ==
    \/ Tick(EnvCaptcha)
    \/ api_captcha(EnvCaptcha)
    \/ api_send_verification_otp(EnvCaptcha)

CaptchaSpec == Init /\ [][CaptchaNext]_vars

\* the notification feed of the admin panel and its producers
PanelNext ==
    \/ register(EnvPanel)
    \/ create_product(EnvPanel)
    \/ edit_product(EnvPanel)
    \/ subscription_confirm(EnvPanel)
    \/ create_signal(EnvPanel)
    \/ approve_subscription(EnvPanel)
    \/ mark_as_read(EnvPanel)
    \/ mark_all_as_read(EnvPanel)
    \/ redirect_notification(EnvPanel)

PanelSpec == Init /\ [][PanelNext]_vars

\* the signal desk of the admin panel
SignalNext ==
    \/ create_product(EnvSignal)
    \/ create_signal(EnvSignal)
    \/ close_signal(EnvSignal)
    \/ approve_signal(EnvSignal)
    \/ reject_signal(EnvSignal)
    \/ delete_signal(EnvSignal)

SignalSpec == Init /\ [][SignalNext]_vars

\* the subscription desk of the admin panel
DeskNext ==
    \/ register(EnvDesk)
    \/ create_product(EnvDesk)
    \/ subscription_confirm(EnvDesk)
    \/ approve_subscription(EnvDesk)
    \/ reject_subscription(EnvDesk)
    \/ edit_subscription(EnvDesk)
    \/ delete_subscription(EnvDesk)
    \/ start_subscription(EnvDesk)

DeskSpec == Init /\ [][DeskNext]_vars

\* send handlers that interleave, and the verify endpoint
RaceNext ==
    \/ Tick(EnvRace)
    \/ send_begin(EnvRace)
    \/ send_commit(EnvRace)
    \/ api_verify_email_otp(EnvRace)

RaceSpec == Init /\ [][RaceNext]_vars

\* the signal feed of a customer and what it is computed from
FeedNext ==
    \/ Tick(EnvFeed)
    \/ register(EnvFeed)
    \/ create_product(EnvFeed)
    \/ start_subscription(EnvFeed)
    \/ create_signal(EnvFeed)
    \/ approve_signal(EnvFeed)
    \/ user_signals(EnvFeed)

FeedSpec == Init /\ [][FeedNext]_vars

\* send requests one after the other, then send requests that overlap
RateNext ==
    \/ Tick(EnvRate)
    \/ api_send_verification_otp(EnvRate)
    \/ send_begin(EnvRate)
    \/ send_commit(EnvRate)

RateSpec == Init /\ [][RateNext]_vars

\* custom challenges and send requests that overlap
OnceNext ==
    \/ Tick(EnvOnce)
    \/ api_captcha(EnvOnce)
    \/ send_begin(EnvOnce)
    \/ send_captcha(EnvOnce)

OnceSpec == Init /\ [][OnceNext]_vars

\* one stored code, and verify requests that overlap
TryNext ==
    \/ api_send_verification_otp(EnvTry)
    \/ verify_begin(EnvTry)
    \/ verify_commit(EnvTry)

TrySpec == Init /\ [][TryNext]_vars

\* subscription requests, payments and approvals
PayNext ==
    \/ register(EnvPay)
    \/ create_product(EnvPay)
    \/ subscription_confirm(EnvPay)
    \/ payment(EnvPay)
    \/ approve_subscription(EnvPay)

PaySpec == Init /\ [][PayNext]_vars

\* the life of a signal: created, decided on, closed, deleted
LifeNext ==
    \/ create_signal(EnvLife)
    \/ close_signal(EnvLife)
    \/ approve_signal(EnvLife)
    \/ reject_signal(EnvLife)
    \/ delete_signal(EnvLife)

LifeSpec == Init /\ [][LifeNext]_vars

\* staff management and the boots of the application
StaffNext ==
    \/ seed_admin(EnvStaff)
    \/ create_staff(EnvStaff)
    \/ edit_staff(EnvStaff)
    \/ delete_staff(EnvStaff)

StaffSpec == StaffInit /\ [][StaffNext]_vars

-----------------------------------------------------------------------------
(* Steps of a behaviour.  A request that changes nothing, its response     *)
(* included, is a stuttering step.                                         *)

\* this step handles a send-verification-otp request for e-mail e
SendStep(e) == now' = now /\ resp'.op = "send_otp" /\ resp'.email = e

\* this step handles a verify-email-otp request for e-mail e
VerifyStep(e) == now' = now /\ resp'.op = "verify_otp" /\ resp'.email = e

\* the request of this step passed the CAPTCHA check
PassedCaptcha == resp'.branch # "CaptchaInvalid"

Count(log, r) == Cardinality({i \in 1..Len(log) : log[i] = r})
Rows(log) == {log[i] : i \in 1..Len(log)}

\* no row is added to the send log in this step
NothingAppended == \A r \in Rows(sendLog') : Count(sendLog', r) <= Count(sendLog, r)

\* every send-log row younger than 24 h is kept in this step
RecentRowsKept ==
    \A r \in Rows(sendLog) :
        r.sent_at > now - SEND_LOG_RETENTION_HOURS * Hour
            => Count(sendLog', r) = Count(sendLog, r)

\* the stored row of e is live: present and not yet expired
Live(e) == otp[e] # NoRow /\ otp[e].otp_expires_at > now

\* the row of e is gone in this step because it had expired
PurgedAsExpired(e) ==
    otp[e] # NoRow /\ otp[e].otp_expires_at <= now /\ otp'[e] = NoRow

-----------------------------------------------------------------------------
(* C1 *)

\* C1 as stated: whenever 5 or more send-log rows of an e-mail lie within the
\* trailing hour, a request_otp with a valid e-mail and a valid captcha fails
\* RateLimited, leaves the e-mail's OTP record unchanged and appends no
\* send-log row.
C1_AsStated ==
    [][\A e \in Emails :
          (SendStep(e) /\ PassedCaptcha
              /\ RecentSends(sendLog, e, now) >= OTP_MAX_SENDS_PER_HOUR)
          => /\ resp'.branch = "RateLimited"
             /\ otp'[e] = otp[e]
             /\ NothingAppended]_vars

\* C1 amended: whenever 5 or more send-log rows of an e-mail lie within the
\* trailing hour, a request_otp with a valid e-mail and a valid captcha fails
\* RateLimited (429) and appends no send-log row; the e-mail's OTP record is
\* unchanged, except that a record that has already expired is deleted by the
\* purge the call starts with.
C1_RateLimited ==
    [][\A e \in Emails :
          (SendStep(e) /\ PassedCaptcha
              /\ RecentSends(sendLog, e, now) >= OTP_MAX_SENDS_PER_HOUR)
          => /\ resp'.branch = "RateLimited"
             /\ Status(resp') = 429
             /\ otp'[e] = otp[e] \/ PurgedAsExpired(e)
             /\ NothingAppended]_vars

\* a sixth request within the hour of five sends was answered RateLimited
\* while the live record of the fifth send is still stored
C1_Witness ==
    /\ resp.op = "send_otp" /\ resp.branch = "RateLimited"
    /\ resp.email \in Emails
    /\ RecentSends(sendLog, resp.email, now) = OTP_MAX_SENDS_PER_HOUR
    /\ Live(resp.email)

-----------------------------------------------------------------------------
(* C2 *)

\* C2 as stated: once 5 wrong candidates were submitted against a record,
\* verify_otp with the correct code fails AttemptsExhausted and does not
\* verify, and only a new successful request_otp for the e-mail makes
\* verification possible again (gives the e-mail a record below the cap).
C2_AsStated ==
    [][\A e \in Emails :
          /\ (VerifyStep(e) /\ Live(e) /\ otp[e].otp_attempts >= MAX_OTP_ATTEMPTS
                 /\ verify_otp(resp'.code, otp[e].otp_hash))
             => (resp'.branch = "AttemptsExhausted" /\ otp'[e] = otp[e]
                    /\ issued' = issued /\ users' = users)
          /\ (otp[e] # NoRow /\ otp[e].otp_attempts >= MAX_OTP_ATTEMPTS
                 /\ otp'[e] # NoRow /\ otp'[e].otp_attempts < MAX_OTP_ATTEMPTS)
             => (SendStep(e) /\ resp'.branch = "Ok")]_vars

-----------------------------------------------------------------------------
(* C3 *)

\* C3 as stated: if the mail dispatch fails inside request_otp, the call
\* fails DeliveryFailed and the e-mail's stored OTP record is the same as
\* before the call (absent if it was absent).
C3_AsStated ==
    [][\A e \in Emails :
          (SendStep(e) /\ resp'.branch = "DeliveryFailed")
          => (otp'[e] = otp[e] \/ PurgedAsExpired(e))]_vars

-----------------------------------------------------------------------------
(* C6 *)

\* the record of e was last sent less than 30 s ago
SentRecently(e) ==
    otp[e] # NoRow /\ now - otp[e].otp_sent_at < OTP_RESEND_COOLDOWN_SECONDS

\* C6 as stated: a request_otp (valid e-mail, valid captcha) for an e-mail
\* whose record was last sent less than 30 s ago fails Cooldown and leaves
\* that record and the send log unchanged.
C6_AsStated ==
    [][\A e \in Emails :
          (SendStep(e) /\ PassedCaptcha /\ SentRecently(e))
          => /\ resp'.branch = "Cooldown"
             /\ otp'[e] = otp[e]
             /\ sendLog' = sendLog]_vars

\* C6 amended: a request_otp with a valid e-mail and a valid captcha, for an
\* e-mail with fewer than 5 sends in the trailing hour whose record was last
\* sent less than 30 s ago, fails Cooldown (429, with the seconds left), leaves
\* that record (hash, expiry, attempts, last_sent_at) unchanged, and adds no
\* row to the send log and removes none younger than 24 h; so the code of
\* the earlier call still verifies after the call.
C6_Cooldown ==
    [][\A e \in Emails :
          (SendStep(e) /\ PassedCaptcha /\ SentRecently(e)
              /\ RecentSends(sendLog, e, now) < OTP_MAX_SENDS_PER_HOUR)
          => /\ resp'.branch = "Cooldown"
             /\ Status(resp') = 429
             /\ resp'.retry_after >= 1
             /\ resp'.retry_after
                    <= OTP_RESEND_COOLDOWN_SECONDS - (now - otp[e].otp_sent_at)
             /\ otp'[e] = otp[e]
             /\ NothingAppended
             /\ RecentRowsKept]_vars

\* a second request within 30 s was answered Cooldown and the record of the
\* first is still stored
C6_Witness ==
    /\ resp.op = "send_otp" /\ resp.branch = "Cooldown"
    /\ resp.email \in Emails
    /\ otp[resp.email] # NoRow
    /\ otp[resp.email].otp_hash = hash_otp(IssuedSample)
    /\ now - otp[resp.email].otp_sent_at < OTP_RESEND_COOLDOWN_SECONDS

-----------------------------------------------------------------------------
(* C7 *)

\* C7: verify_otp at time now on a record with expiry <= now, expiry = now
\* included, is answered as expired (400, "Invalid or expired code"), through
\* the expiry check of the handler or because the purge at the start of the
\* call already deleted the record; it never verifies, whatever the candidate:
\* no token is issued, no account is marked verified, and the record is not
\* touched otherwise.
C7_ExpiredNeverVerifies ==
    [][\A e \in Emails :
          (VerifyStep(e) /\ otp[e] # NoRow /\ otp[e].otp_expires_at <= now)
          => /\ resp'.branch \in {"Expired", "NotFound", "InvalidInput"}
             /\ resp'.branch = "Expired" => otp'[e] = otp[e]
             /\ resp'.branch = "NotFound" => otp'[e] = NoRow
             /\ (otp'[e] = otp[e] /\ ~MalformedOtp(resp'.code)) => resp'.branch = "Expired"
             /\ Status(resp') = 400
             /\ Message(resp') = OTP_VERIFY_FAIL_MSG
             /\ resp'.token = NoToken
             /\ issued' = issued
             /\ users' = users]_vars

\* the correct code was submitted at the very instant the record expires, the
\* record being still stored, and the answer was Expired
C7_Witness ==
    /\ resp.op = "verify_otp" /\ resp.branch = "Expired"
    /\ resp.email \in Emails
    /\ otp[resp.email] # NoRow
    /\ otp[resp.email].otp_expires_at = now
    /\ verify_otp(resp.code, otp[resp.email].otp_hash)

-----------------------------------------------------------------------------
(* C4 *)

\* this step is a registration that created an account
RegisterStep ==
    /\ now' = now
    /\ resp'.op = "register" /\ resp'.branch = "Registered"
    /\ Len(users') = Len(users) + 1

\* C4 as stated: an account created by register has email_verified = true
\* only if the request carried a valid, unexpired registration token that a
\* successful verify_otp issued for the e-mail of the account; without such a
\* token no account is created as verified.
C4_AsStated ==
    [][(RegisterStep /\ users'[Len(users')].email_verified)
          => /\ resp'.token \in issued
             /\ resp'.token.email = users'[Len(users')].email
             /\ resp'.token.expiry >= now]_vars

\* C4 amended: an account created by register has email_verified = true only
\* if the request carried no registration token at all, or carried a valid,
\* unexpired token that a successful verify_otp issued for the e-mail of the
\* account; a request without a token always creates the account as verified.
C4_VerifiedFlag ==
    [][RegisterStep
          => /\ users'[Len(users')].email_verified
                => \/ resp'.token = NoToken
                   \/ /\ resp'.token \in issued
                      /\ resp'.token.email = users'[Len(users')].email
                      /\ resp'.token.expiry >= now
             /\ resp'.token = NoToken => users'[Len(users')].email_verified]_vars

\* an account was created as verified by a request that carried the token
\* issued for its e-mail, at the last instant at which the token is valid
C4_Witness ==
    /\ resp.op = "register" /\ resp.branch = "Registered"
    /\ resp.token \in issued
    /\ resp.token.expiry = now
    /\ users # <<>>
    /\ users[Len(users)].email = resp.token.email
    /\ users[Len(users)].email_verified

-----------------------------------------------------------------------------
(* C5 *)

\* this step handles a send-verification-otp request with a valid e-mail that
\* presents custom challenge id and no third-party token that passes
Presented(id) ==
    /\ now' = now
    /\ resp'.op = "send_otp" /\ resp'.email \in Emails
    /\ resp'.proof.captcha_id = id
    /\ ~validate_recaptcha(resp'.proof.captcha_token)

\* C5: a custom challenge answered correctly before its expiry is accepted by
\* request_otp and marked used; from then on every request_otp that presents
\* its id (valid e-mail, no passing third-party token), whatever the answer,
\* fails CaptchaInvalid: a used challenge stays used until it is deleted, and
\* the id of a deleted challenge is never stored again.
C5_AcceptedOnce ==
    [][\A id \in CaptchaIds :
          /\ (Presented(id) /\ captcha[id] # NoRow /\ captcha[id].used = 0
                 /\ now < captcha[id].captcha_expires_at
                 /\ Strip(resp'.proof.captcha_answer) = captcha[id].captcha_answer)
             => /\ resp'.branch # "CaptchaInvalid"
                /\ captcha'[id] # NoRow /\ captcha'[id].used = 1
          /\ (Presented(id) /\ (captcha[id] = NoRow \/ captcha[id].used = 1))
             => /\ resp'.branch = "CaptchaInvalid"
                /\ Status(resp') = 400
                /\ otp' = otp
                /\ NothingAppended
          /\ (captcha[id] # NoRow /\ captcha[id].used = 1)
             => (captcha'[id] = NoRow \/ captcha'[id] = captcha[id])
          /\ (id <= nextCaptcha /\ captcha[id] = NoRow) => captcha'[id] = NoRow]_vars

\* the correct answer of a challenge that was already accepted was presented
\* again before the expiry of the challenge, and the request failed
\* CaptchaInvalid
C5_Witness ==
    /\ resp.op = "send_otp" /\ resp.branch = "CaptchaInvalid"
    /\ resp.proof.captcha_id \in CaptchaIds
    /\ captcha[resp.proof.captcha_id] # NoRow
    /\ captcha[resp.proof.captcha_id].used = 1
    /\ now < captcha[resp.proof.captcha_id].captcha_expires_at
    /\ Strip(resp.proof.captcha_answer) = captcha[resp.proof.captcha_id].captcha_answer

-----------------------------------------------------------------------------
(* C8 *)

\* C8 as stated: verify_otp with the correct 6-digit code on an unexpired
\* record with fewer than 5 attempts succeeds, deletes the record, sets
\* email_verified on an existing account with that e-mail and returns a
\* registration token; afterwards every verify_otp for the e-mail fails
\* NotFound until a new successful send (after the success the e-mail has no
\* record, a verify_otp without a record fails NotFound, and only a successful
\* send gives the e-mail a record again).
C8_AsStated ==
    [][\A e \in Emails :
          /\ (VerifyStep(e) /\ Live(e) /\ otp[e].otp_attempts < MAX_OTP_ATTEMPTS
                 /\ ~MalformedOtp(resp'.code) /\ verify_otp(resp'.code, otp[e].otp_hash))
             => /\ resp'.branch = "Ok"
                /\ otp'[e] = NoRow
                /\ users' = MarkVerified(users, e)
                /\ resp'.token = create_registration_verification_token(e, now)
          /\ (VerifyStep(e) /\ otp[e] = NoRow /\ ~MalformedOtp(resp'.code))
             => resp'.branch = "NotFound"
          /\ (resp.op = "verify_otp" /\ resp.branch = "Ok" /\ resp.email = e
                 /\ otp[e] = NoRow /\ otp'[e] # NoRow)
             => (SendStep(e) /\ resp'.branch = "Ok")]_vars

-----------------------------------------------------------------------------
(* C9 *)

\* C9: mark_as_read and redirect_notification called by an authenticated admin
\* with the id of an existing notification that is outside the visible set
\* derived for that admin at the call return Forbidden (403) and leave the
\* read flag of every notification unchanged.
C9_ForbiddenOutsideVisible ==
    [][\A a \in AdminIds, id \in 1..MaxNotifications :
          (/\ now' = now
           /\ resp'.op \in {"mark_as_read", "redirect_notification"}
           /\ resp'.admin = a /\ resp'.notification_id = id
           /\ admin_required(a)
           /\ id \in 1..Len(notifications)
           /\ id \notin VisibleIds(admins[a]))
          => /\ resp'.branch = "Forbidden"
             /\ Status(resp') = 403
             /\ notifications' = notifications]_vars

\* an admin of a category that has an active product asked to mark the unread
\* notification of a signal outside that category as read and was refused
C9_Witness ==
    /\ resp.op = "mark_as_read" /\ resp.branch = "Forbidden"
    /\ resp.admin \in 1..Len(admins)
    /\ CategoryScoped(admins[resp.admin])
    /\ ProductIdsOf(admins[resp.admin].product_category) # {}
    /\ resp.notification_id \in 1..Len(notifications)
    /\ notifications[resp.notification_id].type = "signal"
    /\ ~notifications[resp.notification_id].is_read

-----------------------------------------------------------------------------
(* C10 *)

\* C10 as stated: for a category-scoped admin whose category has no product,
\* the visible notification set is exactly the events of type user and system.
C10_AsStated ==
    \A a \in 1..Len(admins) :
        (/\ CategoryScoped(admins[a])
         /\ \A p \in 1..Len(products) : products[p].name # admins[a].product_category)
        => VisibleIds(admins[a])
              = {i \in 1..Len(notifications) : notifications[i].type \in {"user", "system"}}

-----------------------------------------------------------------------------
(* C11 *)

\* the product of a subscription or signal notification carries the category
InCategory(n, category) ==
    \/ /\ n.type = "subscription"
       /\ n.related_id \in 1..Len(subscriptions)
       /\ subscriptions[n.related_id].product_id \in 1..Len(products)
       /\ products[subscriptions[n.related_id].product_id].name = category
    \/ /\ n.type = "signal"
       /\ n.related_id \in 1..Len(signals)
       /\ signals[n.related_id].product_id \in 1..Len(products)
       /\ products[signals[n.related_id].product_id].name = category

\* C11 as stated: for every admin that is not superadmin, the visible set
\* holds every notification of type user and system, and holds a notification
\* of type subscription or signal only if its related row resolves to a
\* subscription or signal whose product belongs to the category of the admin.
C11_AsStated ==
    \A a \in 1..Len(admins) :
        admins[a].role # "superadmin" =>
            \A i \in 1..Len(notifications) :
                /\ notifications[i].type \in {"user", "system"} => i \in VisibleIds(admins[a])
                /\ (notifications[i].type \in {"subscription", "signal"}
                        /\ i \in VisibleIds(admins[a]))
                   => InCategory(notifications[i], admins[a].product_category)

-----------------------------------------------------------------------------
(* C19 *)

\* C19: a superadmin that carries no category sees every notification.
C19_SuperadminSeesAll ==
    \A a \in 1..Len(admins) :
        (admins[a].role = "superadmin" /\ admins[a].product_category = NoCategory)
        => VisibleIds(admins[a]) = 1..Len(notifications)

\* a superadmin without category sees the notification of a signal or of a
\* subscription that the admin of a category with an active product does not
C19_Witness ==
    \E a, b \in 1..Len(admins), i \in 1..Len(notifications) :
        /\ admins[a].role = "superadmin" /\ admins[a].product_category = NoCategory
        /\ CategoryScoped(admins[b])
        /\ ProductIdsOf(admins[b].product_category) # {}
        /\ notifications[i].type \in {"subscription", "signal"}
        /\ i \in VisibleIds(admins[a])
        /\ i \notin VisibleIds(admins[b])

-----------------------------------------------------------------------------
(* C12 *)

\* a request op on signal id by admin a was handled in this step
SignalStep(op, a, id) ==
    resp'.op = op /\ resp'.admin = a /\ resp'.id = id

\* the product of the signal carries the category
SignalInCategory(signal, category) ==
    /\ signal.product_id \in 1..Len(products)
    /\ products[signal.product_id].name = category

\* C12 as stated: approve_signal, reject_signal, close_signal and delete_signal
\* by a category-scoped admin on an existing signal whose product is not of the
\* category of the admin, a signal without product included, are refused and
\* leave the signal unchanged.
C12_AsStated ==
    [][\A a \in AdminIds, id \in 1..MaxSignals :
          \A op \in {"approve_signal", "reject_signal", "close_signal", "delete_signal"} :
              (/\ SignalStep(op, a, id)
               /\ admin_required(a)
               /\ CategoryScoped(admins[a])
               /\ SignalExists(id)
               /\ ~SignalInCategory(signals[id], admins[a].product_category))
              => /\ resp'.branch # "Ok"
                 /\ signals' = signals]_vars

-----------------------------------------------------------------------------
(* C13 *)

\* a request op on subscription id by admin a was handled in this step
SubscriptionStep(op, a) == resp'.op = op /\ resp'.admin = a

\* the product of the subscription carries the category
SubscriptionInCategory(subscription, category) ==
    /\ subscription.product_id \in 1..Len(products)
    /\ products[subscription.product_id].name = category

\* the request of the step may act on the subscriptions: the admin is
\* superadmin, or the product of the subscription it names, or of the
\* subscription it starts, is of the category of the admin
SubscriptionPolicy(a) ==
    \/ admins[a].role = "superadmin"
    \/ /\ resp'.op # "start_subscription"
       /\ SubscriptionExists(resp'.id)
       /\ SubscriptionInCategory(subscriptions[resp'.id], admins[a].product_category)
    \/ /\ resp'.op = "start_subscription"
       /\ resp'.id \in 1..Len(subscriptions')
       /\ SubscriptionInCategory(subscriptions'[resp'.id], admins[a].product_category)

\* C13 as stated: approve_subscription, reject_subscription, edit_subscription,
\* delete_subscription and start_subscription by an active admin that is not
\* superadmin, on a subscription whose product is not of the category of the
\* admin, are refused and change no subscription.
C13_AsStated ==
    [][\A a \in AdminIds :
          \A op \in {"approve_subscription", "reject_subscription", "edit_subscription",
                     "delete_subscription", "start_subscription"} :
              (/\ SubscriptionStep(op, a)
               /\ admin_required(a)
               /\ ~SubscriptionPolicy(a))
              => /\ resp'.branch # "Ok"
                 /\ subscriptions' = subscriptions]_vars

-----------------------------------------------------------------------------
(* C14 *)

\* a request op of the staff pages by the session of account a was handled
StaffStep(op, a) == resp'.op = op /\ resp'.admin = a

\* C14 as stated: a create_staff, edit_staff or delete_staff request of an
\* account that is not superadmin is refused and leaves the staff accounts
\* unchanged.
C14_AsStated ==
    [][\A a \in 1..MaxStaff :
          \A op \in {"create_staff", "edit_staff", "delete_staff"} :
              (/\ StaffStep(op, a)
               /\ admin_required(a)
               /\ admins[a].role # "superadmin")
              => /\ resp'.branch # "Ok"
                 /\ admins' = admins]_vars

-----------------------------------------------------------------------------
(* C16 *)

\* C16 as stated: no staff account has role superadmin and a category.
C16_AsStated ==
    \A a \in 1..Len(admins) :
        AdminExists(a) =>
            ~(admins[a].role = "superadmin" /\ admins[a].product_category # NoCategory)

-----------------------------------------------------------------------------
(* C17 *)

\* C17 as stated: every staff account whose role is not superadmin has a
\* category.
C17_AsStated ==
    \A a \in 1..Len(admins) :
        (AdminExists(a) /\ admins[a].role # "superadmin")
        => admins[a].product_category \in Categories

-----------------------------------------------------------------------------
(* C15 *)

\* the handlers behind admin_required
GatedOps == {"create_staff", "edit_staff", "delete_staff"}

\* a request of a gated handler that carries the session of account a was
\* handled in this step
GatedStep(a) == resp'.op \in GatedOps /\ resp'.admin = a

\* the request was turned away by admin_required: redirect to the login page,
\* session cleared, no table changed
RejectedBeforeBody ==
    /\ resp'.branch = "Unauthenticated"
    /\ resp'.session_cleared
    /\ UNCHANGED <<calls, verifVars, notifications, adminVars, revoked>>

\* the account is deleted or inactive now
StillRevoked(a) == a \in 1..Len(admins) /\ (admins[a] = DeletedAdmin \/ ~admins[a].is_active)

\* C15 as stated: once a staff account has been deactivated or deleted, every
\* later request of a gated handler that carries its session is rejected
\* before the body of the handler, changes no table, and clears the session.
C15_AsStated ==
    [][\A a \in revoked : GatedStep(a) => RejectedBeforeBody]_vars

\* C15: once a staff account has been deactivated or deleted, and for as long
\* as it is deleted or inactive, every request of a gated handler that carries
\* its session is rejected before the body of the handler, changes no table,
\* and clears the session.
C15_RejectedWhileRevoked ==
    [][\A a \in revoked :
          (GatedStep(a) /\ StillRevoked(a)) => RejectedBeforeBody]_vars

\* the session of an account that was deactivated and still exists asked to
\* delete another account and was turned away
C15_Witness ==
    /\ resp.op = "delete_staff"
    /\ resp.id # resp.admin
    /\ resp.branch = "Unauthenticated"
    /\ resp.admin \in revoked
    /\ admins[resp.admin] # DeletedAdmin
    /\ \E b \in 1..Len(admins) : b # resp.admin /\ AdminExists(b)

-----------------------------------------------------------------------------
(* C18 *)

\* customer u holds, at the instant t, a subscription to the product that is
\* approved and whose end date has not passed
HoldsGrant(u, product_id, t) ==
    \E i \in 1..Len(subscriptions) :
        /\ subscriptions[i].user_id = u
        /\ subscriptions[i].product_id = product_id
        /\ subscriptions[i].status = "approved"
        /\ subscriptions[i].end_date >= t

\* C18 as stated: the feed returned to a customer holds a signal only if the
\* signal is APPROVED and the customer holds an approved subscription to the
\* product of the signal whose end date has not passed.
C18_AsStated ==
    [][(resp'.op = "signals" /\ now' = now) =>
          \A k \in 1..Len(resp'.feed) :
              /\ signals[resp'.feed[k]].approval_status = "APPROVED"
              /\ HoldsGrant(resp'.id, signals[resp'.feed[k]].product_id, now)]_vars

-----------------------------------------------------------------------------
(* C20 *)

\* no send handler is between its read and its commit
Quiescent == \A p \in Procs : calls[p].pc # "read"

\* the call of worker p made the last committed write for e-mail e
LastWriter(p, e) ==
    /\ calls[p].email = e /\ calls[p].order > 0
    /\ \A q \in Procs : calls[q].email = e => calls[q].order <= calls[p].order

\* C20: once every send request for an address has completed, the one row of
\* the address holds the code of the last committed write, and the only code a
\* verify request is answered Ok for is that code.
C20_LastWriteWins ==
    [][\A e \in Emails :
          Quiescent =>
              /\ otp[e] # NoRow =>
                    \E p \in Procs :
                        LastWriter(p, e) /\ otp[e].otp_hash = hash_otp(calls[p].code)
              /\ (VerifyStep(e) /\ resp'.branch = "Ok") =>
                    \E p \in Procs : LastWriter(p, e) /\ resp'.code = calls[p].code]_vars

\* two handlers loaded the row of the address before either committed and
\* drew different codes; both commits went through; the code of the later
\* commit was verified
C20_Witness ==
    /\ resp.op = "verify_otp" /\ resp.branch = "Ok"
    /\ \E p, q \in Procs :
        /\ calls[p].pc = "done" /\ calls[q].pc = "done"
        /\ calls[p].email = resp.email /\ calls[q].email = resp.email
        /\ calls[p].seen /\ calls[q].seen /\ calls[p].at = calls[q].at
        /\ 0 < calls[q].order /\ calls[q].order < calls[p].order
        /\ calls[p].code # calls[q].code
        /\ resp.code = calls[p].code

-----------------------------------------------------------------------------
(* C21 *)

\* C21: whatever the interleaving of the send requests for an address, the
\* send-log rows of the address within the trailing hour never number more
\* than OTP_MAX_SENDS_PER_HOUR.
C21_AsStated ==
    \A e \in Emails : RecentSends(sendLog, e, now) <= OTP_MAX_SENDS_PER_HOUR

-----------------------------------------------------------------------------
(* C22 *)

\* the request of worker p passed the captcha check on custom challenge id
PassedWith(p, id) ==
    /\ calls[p].captcha_ok
    /\ calls[p].proof.captcha_id = id
    /\ ~validate_recaptcha(calls[p].proof.captcha_token)

\* C22: whatever the interleaving of the send requests that present one
\* custom challenge with its answer, at most one of them passes the captcha
\* check.
C22_AsStated ==
    \A id \in CaptchaIds : Cardinality({p \in Procs : PassedWith(p, id)}) <= 1

-----------------------------------------------------------------------------
(* C23 *)

RECURSIVE ComparedUpTo(_, _, _)
\* wrong codes the workers 1..p have compared with the hash stored at sent_at
ComparedUpTo(p, email, sent_at) ==
    IF p = 0 THEN 0
    ELSE ComparedBy(p, email, sent_at) + ComparedUpTo(p - 1, email, sent_at)

\* C23: whatever the interleaving of the verify requests for an address, at
\* most MAX_OTP_ATTEMPTS wrong codes are compared with one stored hash, and
\* once every request has returned the attempt counter of the row is the
\* number of wrong codes compared with it: no increment is lost.
C23_AsStated ==
    \A e \in Emails :
        otp[e] # NoRow =>
            LET compared == ComparedUpTo(MaxCalls, e, otp[e].otp_sent_at)
            IN  /\ compared <= MAX_OTP_ATTEMPTS
                /\ (\A p \in Procs : calls[p].pc # "verify") =>
                        otp[e].otp_attempts = compared

-----------------------------------------------------------------------------
(* C24 *)

\* this step handles a request of a logged-in customer
CustomerStep == resp'.op \in {"subscription_confirm", "payment"}

\* C24: once an admin has approved a subscription, no customer operation
\* returns it to pending or clears approved_by.
C24_AsStated ==
    [][CustomerStep =>
          \A id \in 1..Len(subscriptions) :
              (subscriptions[id].status = "approved" /\ subscriptions[id].approved_by # 0) =>
                  /\ subscriptions'[id].status = "approved"
                  /\ subscriptions'[id].approved_by = subscriptions[id].approved_by]_vars

-----------------------------------------------------------------------------
(* C25 *)

\* this step answers Ok to a request of op on signal id
Decided(op, id) == resp'.op = op /\ resp'.branch = "Ok" /\ resp'.id = id

\* C25 as stated: approve_signal and reject_signal on a signal that is already
\* APPROVED or REJECTED leave its approval_status unchanged.
C25_AsStated ==
    [][\A id \in 1..Len(signals) :
          (/\ SignalExists(id)
           /\ resp'.op \in {"approve_signal", "reject_signal"}
           /\ signals[id].approval_status \in {"APPROVED", "REJECTED"}) =>
              signals'[id].approval_status = signals[id].approval_status]_vars

\* C25: approve_signal answered Ok leaves the signal APPROVED and
\* reject_signal answered Ok leaves it REJECTED, whatever its approval_status
\* was; the approval_status of an existing signal changes in no other step and
\* never returns to PENDING.
C25_DecisionOverwrites ==
    [][\A id \in 1..Len(signals) :
          (SignalExists(id) /\ signals'[id] # DeletedSignal) =>
              /\ Decided("approve_signal", id) => signals'[id].approval_status = "APPROVED"
              /\ Decided("reject_signal", id) => signals'[id].approval_status = "REJECTED"
              /\ signals'[id].approval_status # signals[id].approval_status =>
                    /\ Decided("approve_signal", id) \/ Decided("reject_signal", id)
                    /\ signals'[id].approval_status # "PENDING"]_vars

\* a signal that had been rejected was approved by a later request
C25_Witness ==
    /\ resp.op = "approve_signal" /\ resp.branch = "Ok" /\ resp.previous = "REJECTED"
    /\ SignalExists(resp.id)
    /\ signals[resp.id].approval_status = "APPROVED"

-----------------------------------------------------------------------------
(* C26 *)

\* exit price minus entry price for a BUY signal, the reverse for a SELL signal
Gain(signal, x) ==
    IF signal.signal_type = "BUY" THEN x - signal.entry_price ELSE signal.entry_price - x

\* PROFIT for a positive value, LOSS for a negative one, ACTIVE at break-even
Outcome(v) == IF v > 0 THEN "PROFIT" ELSE IF v < 0 THEN "LOSS" ELSE "ACTIVE"

\* C26 as stated: close_signal on an ACTIVE signal with exit price x > 0 sets
\* profit_loss to x - entry for BUY and entry - x for SELL, and status PROFIT,
\* LOSS or ACTIVE as that value is positive, negative or zero.
C26_AsStated ==
    [][\A id \in 1..Len(signals) :
          (/\ SignalExists(id) /\ signals[id].status = "ACTIVE"
           /\ Decided("close_signal", id) /\ resp'.amount > 0) =>
              /\ signals'[id].profit_loss = Gain(signals[id], resp'.amount)
              /\ signals'[id].status = Outcome(Gain(signals[id], resp'.amount))]_vars

\* C26: close_signal on an ACTIVE signal with exit price x > 0 sets
\* profit_loss to the whole number of cents nearest to x - entry (BUY) or
\* entry - x (SELL), and status PROFIT, LOSS or ACTIVE as the value before
\* rounding is positive, negative or zero.
C26_RoundedProfitLoss ==
    [][\A id \in 1..Len(signals) :
          (/\ SignalExists(id) /\ signals[id].status = "ACTIVE"
           /\ Decided("close_signal", id) /\ resp'.amount > 0) =>
              LET gain == Gain(signals[id], resp'.amount)
                  kept == signals'[id].profit_loss
              IN  /\ kept % Cent = 0
                  /\ 2 * (kept - gain) < Cent /\ 2 * (gain - kept) < Cent
                  /\ signals'[id].status = Outcome(gain)]_vars

\* a signal closed a fraction of a cent above its entry price: PROFIT with
\* profit_loss 0.00
C26_Witness ==
    /\ resp.op = "close_signal" /\ resp.branch = "Ok" /\ resp.amount > 0
    /\ SignalExists(resp.id)
    /\ signals[resp.id].status \in {"PROFIT", "LOSS"}
    /\ signals[resp.id].profit_loss = 0

-----------------------------------------------------------------------------
(* C27 *)

\* C27: a close_signal request for a signal whose status is not ACTIVE, PROFIT
\* and LOSS included, leaves the row of the signal as it is: status,
\* exit_price, exit_time and profit_loss keep their values.
C27_ClosedStaysClosed ==
    [][\A id \in 1..Len(signals) :
          (/\ SignalExists(id) /\ signals[id].status # "ACTIVE"
           /\ resp'.op = "close_signal") =>
              /\ signals'[id].status = signals[id].status
              /\ signals'[id].exit_price = signals[id].exit_price
              /\ signals'[id].exit_time = signals[id].exit_time
              /\ signals'[id].profit_loss = signals[id].profit_loss]_vars

\* a close request at another price for a signal closed with PROFIT or LOSS
\* was refused
C27_Witness ==
    /\ resp.op = "close_signal" /\ resp.branch = "NotActive"
    /\ SignalExists(resp.id)
    /\ signals[resp.id].status \in {"PROFIT", "LOSS"}

-----------------------------------------------------------------------------
(* C28 *)

\* this step handles a verify-email-otp request that is answered with branch
VerifyAnswered(branch) == now' = now /\ resp'.op = "verify_otp" /\ resp'.branch = branch

\* the attempt counter and the hash of every unexpired OTP record are kept
LiveRecordsKept ==
    \A f \in Emails :
        Live(f) => /\ otp'[f] # NoRow
                   /\ otp'[f].otp_attempts = otp[f].otp_attempts
                   /\ otp'[f].otp_hash = otp[f].otp_hash

\* the record of the e-mail of the request has one attempt more and is
\* otherwise as it was
OneMoreAttempt ==
    /\ otp[resp'.email] # NoRow
    /\ otp'[resp'.email] # NoRow
    /\ otp'[resp'.email].otp_attempts = otp[resp'.email].otp_attempts + 1
    /\ [otp'[resp'.email] EXCEPT !.otp_attempts = 0]
          = [otp[resp'.email] EXCEPT !.otp_attempts = 0]

-----------------------------------------------------------------------------
(* C29 *)

\* this step is a served request of one of the three endpoints that mark
\* notifications as read, and notification i is in the visible set of the
\* admin who sent it
MarkedBy(i) ==
    /\ resp'.op \in {"mark_as_read", "mark_all_as_read", "redirect_notification"}
    /\ resp'.branch = "Ok"
    /\ resp'.admin \in 1..Len(admins)
    /\ admin_required(resp'.admin)
    /\ i \in VisibleIds(admins[resp'.admin])

\* C29: after its creation the type, related_id, title and message of a
\* notification never change and the notification is never deleted; only its
\* read flag changes, only from unread to read, and only through mark_as_read,
\* mark_all_as_read or redirect_notification acting on a notification inside
\* the visible set of the admin who acts.
C29_OnlyReadFlag ==
    [][/\ Len(notifications') >= Len(notifications)
       /\ \A i \in 1..Len(notifications) :
            /\ notifications'[i].type = notifications[i].type
            /\ notifications'[i].related_id = notifications[i].related_id
            /\ notifications'[i].title = notifications[i].title
            /\ notifications'[i].message = notifications[i].message
            /\ notifications[i].is_read => notifications'[i].is_read
            /\ notifications'[i].is_read # notifications[i].is_read => MarkedBy(i)]_vars

\* an admin bound to a category marked all as read: a notification of that
\* admin's visible set is read, one outside of it is still unread
C29_Witness ==
    /\ resp.op = "mark_all_as_read" /\ resp.branch = "Ok"
    /\ resp.admin \in 1..Len(admins)
    /\ CategoryScoped(admins[resp.admin])
    /\ \E i, j \in 1..Len(notifications) :
          /\ i \in VisibleIds(admins[resp.admin]) /\ notifications[i].is_read
          /\ j \notin VisibleIds(admins[resp.admin]) /\ ~notifications[j].is_read

-----------------------------------------------------------------------------
(* C30 *)

\* some staff account of the table as is an active superadmin
ActiveSuperadmin(as) ==
    \E a \in 1..Len(as) :
        /\ as[a] # DeletedAdmin
        /\ as[a].role = "superadmin"
        /\ as[a].is_active

\* C30 as stated: from a state with an active superadmin, a create_staff,
\* edit_staff or delete_staff request leads to a state with an active
\* superadmin; so at least one remains after any sequence of such requests.
C30_AsStated ==
    [][(/\ ActiveSuperadmin(admins)
        /\ resp'.op \in {"create_staff", "edit_staff", "delete_staff"})
       => ActiveSuperadmin(admins')]_vars

=============================================================================
